---- MODULE Spec2Model ----
(***************************************************************************)
(* Verification model of the Oracle interview service.                     *)
(*                                                                         *)
(*  Part I   the phase machine (Temporal workflow interviewWorkflow), in   *)
(*           its 4-phase form (src/workflows/interview-workflow.ts) and    *)
(*           its 5-phase form (the variant with the introduce phase).      *)
(*  Part II  the step-based engine: InterviewEngine + SessionManager and   *)
(*           the HTTP handlers /sessions/:id/respond, /pause, /resume.     *)
(***************************************************************************)
EXTENDS Integers, Sequences, FiniteSets, TLC

(***************************************************************************)
(* Bounds of the model (not program constants).                            *)
(***************************************************************************)
\* how many respond signals may carry a payload other than "a"
MaxAlt == 2
\* how many HTTP requests are issued against the one session
NumRequests == 2
\* the latest instant the wall clock reaches
MaxClock == 2
\* how far past maxSteps the cursor of a hand-built session is set
MaxPast == 1
\* how many sessions are created in a storage that holds several
MaxSessions == 3
\* how many background persists the routes start
MaxPersists == 2
\* how many questions the completion check lets an interview with persists run to
MaxRounds == 2

(***************************************************************************)
(* Program constants.                                                      *)
(***************************************************************************)
maxQuestions == 20
\* retry: { maximumAttempts: 3 } of proxyActivities
maximumAttempts == 3

(***************************************************************************)
(* Values.                                                                 *)
(***************************************************************************)
\* JavaScript undefined for the optional string / any fields of InterviewState
Undefined == "undefined"
\* payloads of the respond signal: the empty string and two non-empty texts
Payloads == {"", "a", "b"}
\* documents an editContext signal may carry
EditDocs == {"e1"}
\* the document the synthesis collaborator returns
SynthDoc == "s1"
\* JavaScript truthiness of an optional string: !x
Falsy(x) == x = Undefined \/ x = ""
\* the domain / objective texts a workflow is started with, as sequences of
\* characters: empty, whitespace only, and a word
Texts == {<<>>, <<" ">>, <<" ", " ">>, <<"d">>}
\* no getState query is being served
NoQuery == [served |-> FALSE]

VARIABLES
    variant,           \* 4 or 5: which form of interviewWorkflow runs
    pc,                \* the await the workflow function is suspended at
    phase,             \* state.phase
    exchanges,         \* state.exchanges
    introduction,      \* state.introduction (5-phase form)
    currentQuestion,   \* state.currentQuestion (5-phase form)
    contextDocument,   \* state.contextDocument
    recommendations,   \* state.recommendations
    userResponse,      \* state.userResponse
    awaitingResponse,  \* state.awaitingResponse
    question,          \* local const question of the loop body
    interviewComplete, \* local let interviewComplete
    questionCount,     \* local let questionCount
    procAnswer,        \* the answer argument of the processResponse call in flight
    recDoc,            \* the contextDocument argument of the generateRecommendations call
    gatePayload,       \* history: payload of the respond signal that cleared the gate
    error,             \* the Error the workflow function threw, "none" while it runs
    altSent,           \* history: number of respond signals sent with a payload other than "a"
    attempts,          \* failed attempts of the activity call in flight
    domain,            \* state.domain, as given to the workflow
    objective,         \* state.objective, as given to the workflow
    queryResult,       \* the reply of the getState query being served, NoQuery otherwise
    stored,            \* Part II: the storage row of the session
    req,               \* Part II: the HTTP requests against that session
    call,              \* Part II: the library caller of the engine (no HTTP layer)
    overlap,           \* Part II history: two requests were in flight at once
    clock,             \* Part II: the wall clock read by new Date()
    store,             \* Part III: the storage behind SessionManager, several sessions
    ret,               \* Part III: what the last SessionManager call returned or threw
    row,               \* Part IV: the row of the workflow in the interviews table
    tasks,             \* Part IV: the persistWorkflowState calls started so far
    synthEdit,         \* history: the document of the last editContext signal delivered in phase synthesize
    clientPromise,     \* Part VI: the module-level clientPromise of temporal/client.ts
    connections,       \* Part VI: the connection attempts started so far
    handed             \* Part VI: the callers of getTemporalClient, each with the promise it was given

wfVars == <<variant, pc, phase, exchanges, introduction, currentQuestion,
            contextDocument, recommendations, userResponse, awaitingResponse,
            question, interviewComplete, questionCount, procAnswer, recDoc,
            gatePayload, error, altSent, attempts, domain, objective, queryResult>>
params == <<domain, objective>>
storeVars == <<store, ret>>
persistVars == <<row, tasks>>
histVars == <<synthEdit>>
clientVars == <<clientPromise, connections, handed>>
auxVars == <<storeVars, persistVars, histVars, clientVars>>
sessVars == <<stored, req, call, overlap, clock, auxVars>>
vars == <<wfVars, sessVars>>

(***************************************************************************)
(* Part I: the phase machine.                                              *)
(***************************************************************************)
Variants == {4, 5}
\* the texts the generateIntroduction / generateQuestion collaborators return
Introductions == {"intro"}
GeneratedQuestions == {"q"}
\* the recommendation collaborator's result for a given context document
RecommendationsFor(doc) == <<"recs", doc>>

Phases(v) ==
    IF v = 5 THEN <<"prime", "introduce", "interview", "synthesize", "recommend", "complete">>
    ELSE <<"prime", "interview", "synthesize", "recommend", "complete">>

\* the awaits of the workflow function
ActivityPcs == {"primeInterview", "generateIntroduction", "generateQuestion",
                "processResponse", "synthesizeContext", "generateRecommendations"}
WaitPcs == {"introduceWait", "interviewWait", "reviewWait"}
Running == pc \in ActivityPcs \cup WaitPcs

\* String.prototype.trim() on a sequence of characters
RECURSIVE Trim(_)
Trim(s) ==
    IF s = <<>> THEN s
    ELSE IF Head(s) = " " THEN Trim(Tail(s))
    ELSE IF s[Len(s)] = " " THEN Trim(SubSeq(s, 1, Len(s) - 1))
    ELSE s

\* a primeInterview that tests the texts without trimming them
primeInterviewNoTrim(p) ==
    IF p.domain = <<>> THEN "Domain is required"
    ELSE IF p.objective = <<>> THEN "Objective is required"
    ELSE "ok"

\* the primeInterview activity: the Error it throws, or "ok"
primeInterview(p) ==
    IF p.domain = <<>> \/ Len(Trim(p.domain)) = 0 THEN "Domain is required"
    ELSE IF p.objective = <<>> \/ Len(Trim(p.objective)) = 0 THEN "Objective is required"
    ELSE "ok"

\* the InterviewState object the handlers and the workflow function share
LiveState ==
    [domain |-> domain, objective |-> objective, phase |-> phase,
     exchanges |-> exchanges, introduction |-> introduction,
     currentQuestion |-> currentQuestion, contextDocument |-> contextDocument,
     recommendations |-> recommendations, userResponse |-> userResponse,
     awaitingResponse |-> awaitingResponse]

\* let clientPromise: Promise<Client> | null = null, and no call made yet
NoPromise == 0
ClientIdle ==
    /\ clientPromise = NoPromise
    /\ connections = <<>>
    /\ handed = <<>>

InitWorkflow ==
    /\ variant \in Variants
    /\ pc = "primeInterview"
    /\ phase = "prime"
    /\ exchanges = <<>>
    /\ introduction = Undefined
    /\ currentQuestion = Undefined
    /\ contextDocument = Undefined
    /\ recommendations = Undefined
    /\ userResponse = Undefined
    /\ awaitingResponse = FALSE
    /\ question = Undefined
    /\ interviewComplete = FALSE
    /\ questionCount = 0
    /\ procAnswer = Undefined
    /\ recDoc = Undefined
    /\ gatePayload = Undefined
    /\ error = "none"
    /\ altSent = 0
    /\ attempts = 0
    /\ synthEdit = Undefined
    /\ ClientIdle
    /\ domain \in Texts
    /\ objective \in Texts
    /\ queryResult = NoQuery

\* a getState handler that answers with the state as it was when registered
GetStateQueryCached ==
    /\ Running
    /\ queryResult' = [LiveState EXCEPT !.phase = "prime", !.exchanges = <<>>,
                                        !.introduction = Undefined,
                                        !.currentQuestion = Undefined,
                                        !.contextDocument = Undefined,
                                        !.recommendations = Undefined,
                                        !.userResponse = Undefined,
                                        !.awaitingResponse = FALSE]
    /\ UNCHANGED <<variant, pc, phase, exchanges, introduction, currentQuestion,
                   contextDocument, recommendations, userResponse, awaitingResponse,
                   question, interviewComplete, questionCount, procAnswer, recDoc,
                   gatePayload, error, altSent, attempts, params, sessVars>>

\* setHandler(getStateQuery, () => state): a getState query is served
GetStateQuery ==
    /\ Running
    /\ queryResult' = LiveState
    /\ UNCHANGED <<variant, pc, phase, exchanges, introduction, currentQuestion,
                   contextDocument, recommendations, userResponse, awaitingResponse,
                   question, interviewComplete, questionCount, procAnswer, recDoc,
                   gatePayload, error, altSent, attempts, params, sessVars>>

\* setHandler(respondSignal, ...)
RespondSignal(response) ==
    /\ Running
    /\ response # "a" => altSent < MaxAlt
    /\ altSent' = IF response # "a" THEN altSent + 1 ELSE altSent
    /\ userResponse' = response
    /\ awaitingResponse' = FALSE
    /\ gatePayload' = IF awaitingResponse THEN response ELSE gatePayload
    /\ UNCHANGED <<variant, pc, phase, exchanges, introduction, currentQuestion,
                   contextDocument, recommendations, question, interviewComplete,
                   questionCount, procAnswer, recDoc, error, params, sessVars>>
    /\ queryResult' = NoQuery
    /\ attempts' = attempts

\* an editContext handler that clears the gate in every phase
EditContextSignalAlwaysUnblocks(editedContext) ==
    /\ Running
    /\ contextDocument' = editedContext
    /\ awaitingResponse' = FALSE
    /\ UNCHANGED <<variant, pc, phase, exchanges, introduction, currentQuestion,
                   recommendations, userResponse, question, interviewComplete,
                   questionCount, procAnswer, recDoc, gatePayload, error, altSent,
                   params, stored, req, call, overlap,
                   clock, storeVars, persistVars, clientVars>>
    /\ queryResult' = NoQuery
    /\ attempts' = attempts
    /\ synthEdit' = IF phase = "synthesize" THEN editedContext ELSE synthEdit

\* setHandler(editContextSignal, ...)
EditContextSignal(editedContext) ==
    /\ Running
    /\ contextDocument' = editedContext
    /\ awaitingResponse' = IF phase = "synthesize" THEN FALSE ELSE awaitingResponse
    /\ UNCHANGED <<variant, pc, phase, exchanges, introduction, currentQuestion,
                   recommendations, userResponse, question, interviewComplete,
                   questionCount, procAnswer, recDoc, gatePayload, error, altSent, params, stored, req, call, overlap,
                   clock, storeVars, persistVars, clientVars>>
    /\ queryResult' = NoQuery
    /\ attempts' = attempts
    /\ synthEdit' = IF phase = "synthesize" THEN editedContext ELSE synthEdit

\* a prime step that goes straight to the interview loop in both forms
PrimeDoneSkipsIntroduce ==
    /\ pc = "primeInterview"
    /\ primeInterview([domain |-> domain, objective |-> objective]) = "ok"
    /\ phase' = "interview"
    /\ pc' = "generateQuestion"
    /\ UNCHANGED <<variant, exchanges, introduction, currentQuestion, contextDocument,
                   recommendations, userResponse, awaitingResponse, question,
                   interviewComplete, questionCount, procAnswer, recDoc, gatePayload,
                   error, altSent, params, sessVars>>
    /\ queryResult' = NoQuery
    /\ attempts' = 0

\* await primeInterview(...) returns
PrimeDone ==
    /\ pc = "primeInterview"
    /\ primeInterview([domain |-> domain, objective |-> objective]) = "ok"
    /\ IF variant = 5
       THEN /\ phase' = "introduce"
            /\ pc' = "generateIntroduction"
       ELSE /\ phase' = "interview"
            \* while (!interviewComplete && questionCount < maxQuestions)
            /\ pc' = "generateQuestion"
    /\ UNCHANGED <<variant, exchanges, introduction, currentQuestion, contextDocument,
                   recommendations, userResponse, awaitingResponse, question,
                   interviewComplete, questionCount, procAnswer, recDoc, gatePayload,
                   error, altSent, params, sessVars>>
    /\ queryResult' = NoQuery
    /\ attempts' = 0

\* await generateIntroduction(...) returns (5-phase form)
IntroductionGenerated ==
    /\ pc = "generateIntroduction"
    /\ \E intro \in Introductions :
        /\ introduction' = intro
        /\ currentQuestion' = intro
    /\ awaitingResponse' = TRUE
    /\ userResponse' = Undefined
    /\ gatePayload' = Undefined
    /\ pc' = "introduceWait"
    /\ UNCHANGED <<variant, phase, exchanges, contextDocument, recommendations,
                   question, interviewComplete, questionCount, procAnswer, recDoc,
                   error, altSent, params, sessVars>>
    /\ queryResult' = NoQuery
    /\ attempts' = 0

\* an introduce phase that records the introduction exchange twice
IntroduceResumePushesTwice ==
    /\ pc = "introduceWait"
    /\ ~awaitingResponse
    /\ IF Falsy(userResponse)
       THEN /\ pc' = "failed"
            /\ error' = "empty"
            /\ UNCHANGED <<exchanges, currentQuestion, phase>>
       ELSE /\ exchanges' = Append(Append(exchanges, [question |-> introduction, answer |-> userResponse]),
                                 [question |-> introduction, answer |-> userResponse])
            /\ currentQuestion' = Undefined
            /\ phase' = "interview"
            /\ pc' = "generateQuestion"
            /\ error' = error
    /\ UNCHANGED <<variant, introduction, contextDocument, recommendations,
                   userResponse, awaitingResponse, question, interviewComplete,
                   questionCount, procAnswer, recDoc, gatePayload, altSent, params, sessVars>>
    /\ queryResult' = NoQuery
    /\ attempts' = 0

\* await condition(() => !state.awaitingResponse, '24 hours') resolves true
\* in the introduce phase (5-phase form)
IntroduceResume ==
    /\ pc = "introduceWait"
    /\ ~awaitingResponse
    /\ IF Falsy(userResponse)
       THEN /\ pc' = "failed"
            /\ error' = "empty"
            /\ UNCHANGED <<exchanges, currentQuestion, phase>>
       ELSE /\ exchanges' = Append(exchanges, [question |-> introduction, answer |-> userResponse])
            /\ currentQuestion' = Undefined
            /\ phase' = "interview"
            /\ pc' = "generateQuestion"
            /\ error' = error
    /\ UNCHANGED <<variant, introduction, contextDocument, recommendations,
                   userResponse, awaitingResponse, question, interviewComplete,
                   questionCount, procAnswer, recDoc, gatePayload, altSent, params, sessVars>>
    /\ queryResult' = NoQuery
    /\ attempts' = 0

\* await generateQuestion(...) returns
QuestionGenerated ==
    /\ pc = "generateQuestion"
    /\ \E q \in GeneratedQuestions :
        /\ question' = q
        /\ currentQuestion' = IF variant = 5 THEN q ELSE currentQuestion
    /\ awaitingResponse' = TRUE
    /\ userResponse' = Undefined
    /\ gatePayload' = Undefined
    /\ pc' = "interviewWait"
    /\ UNCHANGED <<variant, phase, exchanges, introduction, contextDocument,
                   recommendations, interviewComplete, questionCount, procAnswer, recDoc,
                   error, altSent, params, sessVars>>
    /\ queryResult' = NoQuery
    /\ attempts' = 0

\* await condition(...) resolves true in the interview loop
InterviewResume ==
    /\ pc = "interviewWait"
    /\ ~awaitingResponse
    /\ IF Falsy(userResponse)
       THEN /\ pc' = "failed"
            /\ error' = "empty"
            /\ procAnswer' = procAnswer
       ELSE \* processResponse({question, answer: state.userResponse, exchanges})
            /\ procAnswer' = userResponse
            /\ pc' = "processResponse"
            /\ error' = error
    /\ UNCHANGED <<variant, phase, exchanges, introduction, currentQuestion,
                   contextDocument, recommendations, userResponse, awaitingResponse,
                   question, interviewComplete, questionCount, recDoc, gatePayload,
                   altSent, params, sessVars>>
    /\ queryResult' = NoQuery
    /\ attempts' = 0

\* a loop whose test is questionCount <= maxQuestions
ResponseProcessedOffByOne(complete) ==
    /\ pc = "processResponse"
    /\ exchanges' = Append(exchanges, [question |-> question, answer |-> userResponse])
    /\ currentQuestion' = IF variant = 5 THEN Undefined ELSE currentQuestion
    /\ interviewComplete' = complete
    /\ questionCount' = questionCount + 1
    /\ IF ~complete /\ questionCount + 1 <= maxQuestions
       THEN /\ pc' = "generateQuestion"
            /\ phase' = phase
       ELSE /\ phase' = "synthesize"
            /\ pc' = "synthesizeContext"
    /\ procAnswer' = Undefined
    /\ gatePayload' = Undefined
    /\ UNCHANGED <<variant, introduction, contextDocument, recommendations,
                   userResponse, awaitingResponse, question, recDoc, error, altSent,
                   params, sessVars>>
    /\ queryResult' = NoQuery
    /\ attempts' = 0

\* a loop body that sets awaitingResponse before it asks for the next question
ResponseProcessedRearmsWait(complete) ==
    /\ pc = "processResponse"
    /\ exchanges' = Append(exchanges, [question |-> question, answer |-> userResponse])
    /\ currentQuestion' = IF variant = 5 THEN Undefined ELSE currentQuestion
    /\ interviewComplete' = complete
    /\ questionCount' = questionCount + 1
    /\ IF ~complete /\ questionCount + 1 < maxQuestions
       THEN /\ pc' = "generateQuestion"
            /\ phase' = phase
            /\ awaitingResponse' = TRUE
       ELSE /\ phase' = "synthesize"
            /\ pc' = "synthesizeContext"
            /\ awaitingResponse' = awaitingResponse
    /\ procAnswer' = Undefined
    /\ gatePayload' = Undefined
    /\ UNCHANGED <<variant, introduction, contextDocument, recommendations,
                   userResponse, question, recDoc, error, altSent, params, sessVars>>
    /\ queryResult' = NoQuery
    /\ attempts' = 0

\* await processResponse(...) returns result; the rest of the loop body and
\* the loop test
ResponseProcessed(complete) ==
    /\ pc = "processResponse"
    /\ exchanges' = Append(exchanges, [question |-> question, answer |-> userResponse])
    /\ currentQuestion' = IF variant = 5 THEN Undefined ELSE currentQuestion
    /\ interviewComplete' = complete
    /\ questionCount' = questionCount + 1
    /\ IF ~complete /\ questionCount + 1 < maxQuestions
       THEN /\ pc' = "generateQuestion"
            /\ phase' = phase
       ELSE /\ phase' = "synthesize"
            /\ pc' = "synthesizeContext"
    \* the call has returned and the answer it was about is recorded
    /\ procAnswer' = Undefined
    /\ gatePayload' = Undefined
    /\ UNCHANGED <<variant, introduction, contextDocument, recommendations,
                   userResponse, awaitingResponse, question, recDoc, error, altSent, params, sessVars>>
    /\ queryResult' = NoQuery
    /\ attempts' = 0

\* await synthesizeContext(...) returns
ContextSynthesized ==
    /\ pc = "synthesizeContext"
    /\ contextDocument' = SynthDoc
    /\ awaitingResponse' = TRUE
    /\ gatePayload' = Undefined
    /\ pc' = "reviewWait"
    /\ UNCHANGED <<variant, phase, exchanges, introduction, currentQuestion,
                   recommendations, userResponse, question, interviewComplete,
                   questionCount, procAnswer, recDoc, error, altSent, params, sessVars>>
    /\ queryResult' = NoQuery
    /\ attempts' = 0

\* a review wait that insists on a non-empty response like the other waits
ReviewResumeRequiresResponse ==
    /\ pc = "reviewWait"
    /\ ~awaitingResponse
    /\ IF Falsy(userResponse)
       THEN /\ pc' = "failed"
            /\ error' = "empty"
            /\ UNCHANGED <<phase, recDoc>>
       ELSE /\ phase' = "recommend"
            /\ pc' = "generateRecommendations"
            /\ recDoc' = contextDocument
            /\ error' = error
    /\ UNCHANGED <<variant, exchanges, introduction, currentQuestion, contextDocument,
                   recommendations, userResponse, awaitingResponse, question,
                   interviewComplete, questionCount, procAnswer, gatePayload,
                   altSent, params, sessVars>>
    /\ queryResult' = NoQuery
    /\ attempts' = 0

\* await condition(...) resolves true in the synthesize phase
ReviewResume ==
    /\ pc = "reviewWait"
    /\ ~awaitingResponse
    /\ phase' = "recommend"
    /\ pc' = "generateRecommendations"
    \* generateRecommendations({contextDocument: state.contextDocument, objective})
    /\ recDoc' = contextDocument
    /\ UNCHANGED <<variant, exchanges, introduction, currentQuestion, contextDocument,
                   recommendations, userResponse, awaitingResponse, question,
                   interviewComplete, questionCount, procAnswer, gatePayload,
                   error, altSent, params, sessVars>>
    /\ queryResult' = NoQuery
    /\ attempts' = 0

\* a recommend phase that stores the result and returns without marking
\* the interview complete
RecommendationsGeneratedKeepsPhase ==
    /\ pc = "generateRecommendations"
    /\ recommendations' = RecommendationsFor(recDoc)
    /\ pc' = "done"
    /\ UNCHANGED <<variant, phase, exchanges, introduction, currentQuestion, contextDocument,
                   userResponse, awaitingResponse, question, interviewComplete,
                   questionCount, procAnswer, recDoc, gatePayload, error, altSent, params, sessVars>>
    /\ queryResult' = NoQuery
    /\ attempts' = 0

\* await generateRecommendations(...) returns; return state
RecommendationsGenerated ==
    /\ pc = "generateRecommendations"
    /\ recommendations' = RecommendationsFor(recDoc)
    /\ phase' = "complete"
    /\ pc' = "done"
    /\ UNCHANGED <<variant, exchanges, introduction, currentQuestion, contextDocument,
                   userResponse, awaitingResponse, question, interviewComplete,
                   questionCount, procAnswer, recDoc, gatePayload, error, altSent, params, sessVars>>
    /\ queryResult' = NoQuery
    /\ attempts' = 0

\* a wait whose result is not checked: the workflow goes on after the timer
TimeoutUnchecked ==
    /\ pc \in WaitPcs
    /\ awaitingResponse
    /\ IF pc = "reviewWait"
       THEN /\ phase' = "recommend"
            /\ pc' = "generateRecommendations"
            /\ recDoc' = contextDocument
            /\ error' = error
       ELSE /\ pc' = "failed"
            /\ error' = "empty"
            /\ UNCHANGED <<phase, recDoc>>
    /\ UNCHANGED <<variant, exchanges, introduction, currentQuestion,
                   contextDocument, recommendations, userResponse, awaitingResponse,
                   question, interviewComplete, questionCount, procAnswer,
                   gatePayload, altSent, params, sessVars>>
    /\ queryResult' = NoQuery
    /\ attempts' = 0

\* the 24-hour timer of condition(...) fires first: condition resolves false
Timeout ==
    /\ pc \in WaitPcs
    /\ awaitingResponse
    /\ pc' = "failed"
    /\ error' = "timeout"
    /\ UNCHANGED <<variant, phase, exchanges, introduction, currentQuestion,
                   contextDocument, recommendations, userResponse, awaitingResponse,
                   question, interviewComplete, questionCount, procAnswer, recDoc,
                   gatePayload, altSent, params, sessVars>>
    /\ queryResult' = NoQuery
    /\ attempts' = 0

\* a retry policy that allows one attempt more than maximumAttempts
ActivityAttemptFailedOnceMore ==
    /\ pc \in ActivityPcs
    /\ attempts < maximumAttempts
    /\ attempts' = attempts + 1
    /\ UNCHANGED <<variant, pc, phase, exchanges, introduction, currentQuestion,
                   contextDocument, recommendations, userResponse, awaitingResponse,
                   question, interviewComplete, questionCount, procAnswer, recDoc,
                   gatePayload, error, altSent, params, sessVars>>
    /\ queryResult' = NoQuery

\* an attempt of the proxied activity in flight fails (it throws, or its
\* startToCloseTimeout passes) and the retry policy schedules another one
ActivityAttemptFailed ==
    /\ pc \in ActivityPcs
    /\ attempts + 1 < maximumAttempts
    /\ attempts' = attempts + 1
    /\ UNCHANGED <<variant, pc, phase, exchanges, introduction, currentQuestion,
                   contextDocument, recommendations, userResponse, awaitingResponse,
                   question, interviewComplete, questionCount, procAnswer, recDoc,
                   gatePayload, error, altSent, params, sessVars>>
    /\ queryResult' = NoQuery

\* the last attempt the retry policy allows fails: the await throws
ActivityFailed ==
    /\ pc \in ActivityPcs
    /\ attempts + 1 = maximumAttempts
    /\ attempts' = attempts + 1
    /\ pc' = "failed"
    /\ error' = "activity"
    /\ UNCHANGED <<variant, phase, exchanges, introduction, currentQuestion,
                   contextDocument, recommendations, userResponse, awaitingResponse,
                   question, interviewComplete, questionCount, procAnswer, recDoc,
                   gatePayload, altSent, params, sessVars>>
    /\ queryResult' = NoQuery

NextWorkflow ==
    \/ PrimeDone
    \/ IntroductionGenerated
    \/ IntroduceResume
    \/ QuestionGenerated
    \/ InterviewResume
    \/ \E complete \in BOOLEAN : ResponseProcessed(complete)
    \/ ContextSynthesized
    \/ ReviewResume
    \/ RecommendationsGenerated
    \/ Timeout
    \/ ActivityAttemptFailed
    \/ ActivityFailed
    \/ \E response \in Payloads : RespondSignal(response)
    \/ \E editedContext \in EditDocs : EditContextSignal(editedContext)
    \/ GetStateQuery

\* the workflow a Part II specification leaves untouched
WorkflowIdle ==
    /\ InitWorkflow
    /\ variant = 4
    /\ domain = <<"d">>
    /\ objective = <<"d">>


(***************************************************************************)
(* Part II: the step-based engine.                                         *)
(*                                                                         *)
(* JavaScript values a response can be.                                    *)
(***************************************************************************)
Str(s) == [kind |-> "string", s |-> s]
Num(n) == [kind |-> "number", n |-> n]
Bool(b) == [kind |-> "boolean", b |-> b]
\* an array of strings
Arr(items) == [kind |-> "array", items |-> items]
Null == [kind |-> "null"]
Undef == [kind |-> "undefined"]
NaN == [kind |-> "number", nan |-> TRUE]

\* typeof response === 'string'
IsString(v) == v.kind = "string"

\* Number(s) for a string s: the numeric strings of the model, NaN otherwise
StringToNumber(s) ==
    CASE s = "" -> Num(0)
      [] s = "1" -> Num(1)
      [] s = "2" -> Num(2)
      [] s = "3" -> Num(3)
      [] s = "4" -> Num(4)
      [] s = "5" -> Num(5)
      [] s = "7" -> Num(7)
      [] s = "5000" -> Num(5000)
      [] OTHER -> NaN

\* array.join(','), which is also array.toString()
RECURSIVE Join(_)
Join(items) ==
    IF items = <<>> THEN ""
    ELSE IF Len(items) = 1 THEN items[1]
    ELSE items[1] \o "," \o Join(Tail(items))

\* Number(response): the numeric value, or NaN
ToNumber(v) ==
    CASE v.kind = "number" -> v
      [] v.kind = "null" -> Num(0)
      [] v.kind = "undefined" -> NaN
      [] v.kind = "boolean" -> IF v.b THEN Num(1) ELSE Num(0)
      [] v.kind = "array" -> StringToNumber(Join(v.items))
      [] v.kind = "string" -> StringToNumber(v.s)

\* Number.isFinite(x)
IsFiniteNumber(x) == x.kind = "number" /\ "n" \in DOMAIN x

\* response.toString()
ToStringJS(v) ==
    CASE v.kind = "string" -> v.s
      [] v.kind = "boolean" -> IF v.b THEN "true" ELSE "false"
      [] v.kind = "array" -> Join(v.items)
      [] v.kind = "number" /\ "n" \in DOMAIN v ->
            CASE v.n = 0 -> "0"
              [] v.n = 1 -> "1"
              [] v.n = 2 -> "2"
              [] v.n = 3 -> "3"
              [] v.n = 4 -> "4"
              [] v.n = 5 -> "5"
              [] v.n = 7 -> "7"
              [] OTHER -> "5000"
      [] OTHER -> "NaN"

\* array.includes(x) on a sequence
Includes(seq, x) == \E i \in 1..Len(seq) : seq[i] = x

\* !isNaN(new Date(s).getTime()) for a string s: ISO dates parse, and so do
\* bare numbers under Node's date parser; other texts do not
StringIsDate(s) ==
    s = "2026-03-15" \/ (s # "" /\ IsFiniteNumber(StringToNumber(s)))

\* !isNaN(new Date(response).getTime())
IsValidDate(v) ==
    CASE v.kind = "string" -> StringIsDate(v.s)
      [] v.kind = "number" -> IsFiniteNumber(v)
      [] v.kind = "boolean" -> TRUE
      [] v.kind = "null" -> TRUE
      [] v.kind = "array" -> StringIsDate(Join(v.items))
      [] OTHER -> FALSE

(***************************************************************************)
(* QuestionBank: INTERVIEW_TYPES.                                          *)
(***************************************************************************)
NoOptions == "none"
Q(id, type, required, options) ==
    [id |-> id, type |-> type, required |-> required, options |-> options]

GeneralInterviewType ==
    [type |-> "general",
     maxSteps |-> 5,
     questions |-> <<Q("purpose", "text", TRUE, NoOptions),
                     Q("experience", "scale", TRUE, <<"1", "2", "3", "4", "5">>),
                     Q("goals", "text", TRUE, NoOptions),
                     Q("timeline", "text", TRUE, NoOptions),
                     Q("additional", "text", FALSE, NoOptions)>>,
     completionCriteria |-> <<"all_required_answered", "step_limit_reached">>]

TenantScreeningInterviewType ==
    [type |-> "tenant-screening",
     maxSteps |-> 8,
     questions |-> <<Q("contact_info", "text", TRUE, NoOptions),
                     Q("employment_status", "multiple_choice", TRUE,
                       <<"Employed full-time", "Employed part-time", "Self-employed",
                         "Student", "Retired", "Unemployed">>),
                     Q("monthly_income", "number", TRUE, NoOptions),
                     Q("rental_history", "text", TRUE, NoOptions),
                     Q("reason_for_moving", "multiple_choice", TRUE,
                       <<"Job relocation", "Upgrading space", "Downsizing",
                         "Financial reasons", "Lifestyle change", "Other">>),
                     Q("preferred_move_date", "date", TRUE, NoOptions),
                     Q("pets", "text", TRUE, NoOptions),
                     Q("references", "yes_no", TRUE, NoOptions)>>,
     completionCriteria |-> <<"all_required_answered", "step_limit_reached">>]

CustomerOnboardingInterviewType ==
    [type |-> "customer-onboarding",
     maxSteps |-> 6,
     questions |-> <<Q("welcome", "multiple_choice", TRUE,
                       <<"Search engine", "Social media", "Referral from friend",
                         "Advertisement", "Website", "Other">>),
                     Q("primary_need", "text", TRUE, NoOptions),
                     Q("urgency", "scale", TRUE, <<"1", "2", "3", "4", "5">>),
                     Q("budget_range", "multiple_choice", TRUE,
                       <<"Under $500", "$500-$1000", "$1000-$2500", "$2500-$5000",
                         "Over $5000", "Not sure">>),
                     Q("communication_preference", "multiple_select", TRUE,
                       <<"Email", "Phone", "Text message", "Video call",
                         "In-person meeting">>),
                     Q("questions", "text", FALSE, NoOptions)>>,
     completionCriteria |-> <<"all_required_answered", "step_limit_reached">>]

MaintenanceRequestInterviewType ==
    [type |-> "maintenance-request",
     maxSteps |-> 7,
     questions |-> <<Q("unit_identification", "text", TRUE, NoOptions),
                     Q("issue_description", "text", TRUE, NoOptions),
                     Q("issue_category", "multiple_choice", TRUE,
                       <<"Plumbing", "Electrical", "HVAC", "Appliance", "Structural",
                         "Pest control", "Other">>),
                     Q("urgency_level", "multiple_choice", TRUE,
                       <<"Emergency (immediate)", "Urgent (within 24 hours)",
                         "Normal (within a week)", "Low priority (when convenient)">>),
                     Q("access_availability", "text", TRUE, NoOptions),
                     Q("contact_preference", "multiple_choice", TRUE,
                       <<"Phone call", "Text message", "Email", "In-person visit">>),
                     Q("photos_description", "yes_no", FALSE, NoOptions)>>,
     completionCriteria |-> <<"all_required_answered", "step_limit_reached">>]

INTERVIEW_TYPES ==
    [t \in {"general", "tenant-screening", "customer-onboarding", "maintenance-request"} |->
        CASE t = "general" -> GeneralInterviewType
          [] t = "tenant-screening" -> TenantScreeningInterviewType
          [] t = "customer-onboarding" -> CustomerOnboardingInterviewType
          [] t = "maintenance-request" -> MaintenanceRequestInterviewType]

\* getInterviewType(type): the definition, or null
NoType == [type |-> "null"]
getInterviewType(type) ==
    IF type \in DOMAIN INTERVIEW_TYPES THEN INTERVIEW_TYPES[type] ELSE NoType

(***************************************************************************)
(* InterviewEngine.                                                        *)
(***************************************************************************)
\* an absent Date (completedAt?: Date)
NoDate == -1
NoQuestion == [id |-> "null"]

\* interviewType.questions[i] for a 0-based i; undefined past the end
QuestionAt(def, i) ==
    IF i >= 0 /\ i < Len(def.questions) THEN def.questions[i + 1] ELSE NoQuestion

Valid == [valid |-> TRUE, error |-> ""]
Invalid(message) == [valid |-> FALSE, error |-> message]

\* the type-specific validation: switch (question.type)
ValidateType(q, response) ==
    CASE q.type = "text" ->
            IF ~IsString(response) THEN Invalid("Response must be text") ELSE Valid
      [] q.type = "number" ->
            IF response.kind # "number" /\ ~IsFiniteNumber(ToNumber(response))
            THEN Invalid("Response must be a number") ELSE Valid
      [] q.type = "yes_no" ->
            IF response \notin {Str("yes"), Str("no"), Str("true"), Str("false"),
                                Bool(TRUE), Bool(FALSE)}
            THEN Invalid("Response must be yes/no or true/false") ELSE Valid
      [] q.type = "scale" ->
            IF ~IsFiniteNumber(ToNumber(response))
            THEN Invalid("Scale response must be a number")
            ELSE IF q.options # NoOptions /\ ~Includes(q.options, ToStringJS(response))
            THEN Invalid("Response must be one of")
            ELSE Valid
      [] q.type = "multiple_choice" ->
            IF q.options # NoOptions
               /\ ~(IsString(response) /\ Includes(q.options, response.s))
            THEN Invalid("Response must be one of") ELSE Valid
      [] q.type = "multiple_select" ->
            IF response.kind # "array"
            THEN Invalid("Multiple select response must be an array")
            ELSE IF q.options # NoOptions
                    /\ \E i \in 1..Len(response.items) : ~Includes(q.options, response.items[i])
            THEN Invalid("Invalid options")
            ELSE Valid
      [] q.type = "date" ->
            IF ~IsValidDate(response) THEN Invalid("Response must be a valid date")
            ELSE Valid
      [] OTHER -> Invalid("Unknown question type")

\* response === null || response === undefined || response === ''
IsEmptyResponse(response) == response = Null \/ response = Undef \/ response = Str("")

\* a validateResponse without the required-question check
validateResponseSkipsRequired(q, response) ==
    IF IsEmptyResponse(response) THEN Valid
    ELSE ValidateType(q, response)

\* private validateResponse(question, response)
validateResponse(q, response) ==
    IF q.required /\ IsEmptyResponse(response)
    THEN Invalid("Response is required for this question")
    ELSE IF ~q.required /\ IsEmptyResponse(response) THEN Valid
    ELSE ValidateType(q, response)

\* an all_required_answered rule that does not look at the cursor
RuleHoldsIgnoresCursor(rule, def, session) ==
    CASE rule = "step_limit_reached" -> session.currentStep >= def.maxSteps
      [] rule = "all_required_answered" ->
            \A i \in 1..Len(def.questions) :
                def.questions[i].required => def.questions[i].id \in DOMAIN session.responses
      [] OTHER -> FALSE

\* the completion rule criteria of def, evaluated on session
RuleHolds(rule, def, session) ==
    CASE rule = "step_limit_reached" -> session.currentStep >= def.maxSteps
      [] rule = "all_required_answered" ->
            /\ \A i \in 1..Len(def.questions) :
                  def.questions[i].required => def.questions[i].id \in DOMAIN session.responses
            /\ session.currentStep >= Len(def.questions)
      [] OTHER -> FALSE

\* a checkCompletion whose rules fire one step late
checkCompletionOneStepLate(session) ==
    LET def == getInterviewType(session.interviewType)
    IN  IF def = NoType THEN FALSE
        ELSE \E i \in 1..Len(def.completionCriteria) :
                RuleHolds(def.completionCriteria[i], def,
                          [session EXCEPT !.currentStep = session.currentStep - 1])

\* checkCompletion(session)
checkCompletion(session) ==
    LET def == getInterviewType(session.interviewType)
    IN  IF def = NoType THEN FALSE
        ELSE \E i \in 1..Len(def.completionCriteria) :
                RuleHolds(def.completionCriteria[i], def, session)

\* a getNextQuestion that hands out the question after the cursor's
getNextQuestionSkipsOne(session) ==
    LET def == getInterviewType(session.interviewType)
    IN  IF session.currentStep >= def.maxSteps THEN NoQuestion
        ELSE QuestionAt(def, session.currentStep + 1)

\* getNextQuestion(session)
getNextQuestion(session) ==
    LET def == getInterviewType(session.interviewType)
    IN  IF session.currentStep >= def.maxSteps THEN NoQuestion
        ELSE QuestionAt(def, session.currentStep)

\* {...a, ...b}: the fields of b laid over those of a
Spread(a, b) ==
    [f \in DOMAIN a \cup DOMAIN b |-> IF f \in DOMAIN b THEN b[f] ELSE a[f]]

NoUpdates == [f \in {} |-> 0]

\* the body of processResponse(session, response) at wall-clock time now:
\* the projected session it builds and the ProcessResult it returns
ProcessOutcome(session, response, now) ==
    LET def == getInterviewType(session.interviewType)
        currentQuestion_ == QuestionAt(def, session.currentStep)
        validationResult == validateResponse(currentQuestion_, response)
        responseData == [response |-> response,
                         metadata |-> [questionId |-> currentQuestion_.id,
                                       questionType |-> currentQuestion_.type,
                                       step |-> session.currentStep],
                         timestamp |-> now]
        newResponses == Spread(session.responses,
                               [q \in {currentQuestion_.id} |-> responseData])
        newStep == session.currentStep + 1
        projected0 == [session EXCEPT !.responses = newResponses,
                                      !.currentStep = newStep,
                                      !.updatedAt = now]
        completed == checkCompletion(projected0)
        projected == IF completed
                     THEN [projected0 EXCEPT !.status = "completed", !.completedAt = now]
                     ELSE projected0
        nextQuestion == IF completed THEN NoQuestion ELSE getNextQuestion(projected)
        upd == [currentStep |-> newStep, responses |-> newResponses, updatedAt |-> now,
                status |-> IF completed THEN "completed" ELSE session.status]
    IN  IF currentQuestion_ = NoQuestion
        THEN [projected |-> session,
              result |-> [success |-> FALSE, completed |-> FALSE,
                          error |-> "No current question found",
                          nextQuestion |-> NoQuestion, updates |-> NoUpdates]]
        ELSE IF ~validationResult.valid
        THEN [projected |-> session,
              result |-> [success |-> FALSE, completed |-> FALSE,
                          error |-> validationResult.error,
                          nextQuestion |-> NoQuestion, updates |-> NoUpdates]]
        ELSE [projected |-> projected,
              result |-> [success |-> TRUE, completed |-> completed, error |-> "",
                          nextQuestion |-> nextQuestion,
                          updates |-> IF completed
                                      THEN Spread(upd, [completedAt |-> now])
                                      ELSE upd]]

\* a processResponse that writes the new state into the session it is given
processResponseMutating(session, response, now) ==
    LET o == ProcessOutcome(session, response, now)
    IN  [session |-> o.projected, result |-> o.result]

\* a processResponse that advances past an empty answer without recording it
processResponseDropsEmpty(session, response, now) ==
    LET o == ProcessOutcome(session, response, now)
    IN  [session |-> session,
         result |-> IF o.result.success /\ IsEmptyResponse(response)
                    THEN [o.result EXCEPT !.updates.responses = session.responses]
                    ELSE o.result]

\* processResponse(session, response): the session object as the call leaves
\* it (untouched: the new state is built in a copy), and the result returned
processResponse(session, response, now) ==
    LET o == ProcessOutcome(session, response, now)
    IN  [session |-> session, result |-> o.result]

(***************************************************************************)
(* SessionManager.                                                         *)
(***************************************************************************)
\* createSession(params): the session saved and returned
createSession(id, interviewType, now) ==
    [id |-> id, interviewType |-> interviewType, status |-> "active",
     currentStep |-> 0, responses |-> NoUpdates,
     createdAt |-> now, updatedAt |-> now, completedAt |-> NoDate]

\* an updateSession that merges the updates but keeps the loaded cursor
updateSessionKeepsCursor(session, updates, now) ==
    [Spread(session, updates) EXCEPT !.updatedAt = now,
                                     !.currentStep = session.currentStep]

\* an updateSession that spreads in the wrong order: {...updates, ...session}
updateSessionStoredWins(session, updates, now) ==
    [Spread(updates, session) EXCEPT !.updatedAt = now]

\* updateSession(sessionId, updates) once the session is loaded: the session saved
updateSession(session, updates, now) ==
    LET updatedSession == [Spread(session, updates) EXCEPT !.updatedAt = now]
    IN  IF "status" \in DOMAIN updates /\ updates.status = "completed"
           /\ session.completedAt = NoDate
        THEN [updatedSession EXCEPT !.completedAt = now]
        ELSE updatedSession


(***************************************************************************)
(* Analyzer.                                                               *)
(***************************************************************************)
\* JavaScript truthiness of a response value
Truthy(v) ==
    CASE v.kind = "string" -> v.s # ""
      [] v.kind = "number" -> IsFiniteNumber(v) /\ v.n # 0
      [] v.kind = "boolean" -> v.b
      [] v.kind = "array" -> TRUE
      [] OTHER -> FALSE

\* the strings of the model that trim() empties
BlankStrings == {"", " "}

\* the points calculateQualityScore gives one ResponseData entry
QualityPoints(entry) ==
    (IF Truthy(entry.response) /\ ToStringJS(entry.response) \notin BlankStrings
     THEN 2 ELSE 0)
    + (IF IsString(entry.response) /\ Len(entry.response.s) > 20 THEN 1 ELSE 0)
    + (IF entry.response.kind = "array" /\ Len(entry.response.items) > 1 THEN 1 ELSE 0)

\* the points of the entries of responses stored under keys
RECURSIVE QualityPointsOf(_, _)
QualityPointsOf(f, keys) ==
    IF keys = {} THEN 0
    ELSE LET k == CHOOSE k \in keys : TRUE
         IN  QualityPoints(f[k]) + QualityPointsOf(f, keys \ {k})

\* a fraction num / den with den > 0
Frac(num, den) == [num |-> num, den |-> den]
FracMin(a, b) == IF a.num * b.den <= b.num * a.den THEN a ELSE b
FracMax(a, b) == IF a.num * b.den >= b.num * a.den THEN a ELSE b
FracAdd(a, b) == Frac(a.num * b.den + b.num * a.den, a.den * b.den)
\* Math.round of a fraction: the nearest integer, halves upwards
FracRound(a) ==
    IF 2 * a.num + a.den >= 0
    THEN (2 * a.num + a.den) \div (2 * a.den)
    ELSE -((-(2 * a.num + a.den) + 2 * a.den - 1) \div (2 * a.den))

\* completedAt && createdAt ? completedAt.getTime() - createdAt.getTime() : 0
CompletionTime(session) ==
    IF session.completedAt # NoDate THEN session.completedAt - session.createdAt ELSE 0

\* Math.min((responseCount / maxQuestions) * 40, 40)
completenessScore(session, def) ==
    FracMin(Frac(Cardinality(DOMAIN session.responses) * 40, def.maxSteps), Frac(40, 1))

\* private calculateQualityScore(session)
calculateQualityScore(session) ==
    LET totalResponses == Cardinality(DOMAIN session.responses)
        qualityPoints == QualityPointsOf(session.responses, DOMAIN session.responses)
        maxPossiblePoints == totalResponses * 3
    IN  IF maxPossiblePoints > 0
        THEN FracMin(Frac(qualityPoints * 30, maxPossiblePoints), Frac(30, 1))
        ELSE Frac(0, 1)

\* a calculateTimeScore without the floor of 10 points
calculateTimeScoreNoFloor(session) ==
    LET completionTime == CompletionTime(session)
    IN  IF completionTime = 0 THEN Frac(15, 1)
        ELSE IF completionTime >= 5 * 60000 /\ completionTime <= 15 * 60000 THEN Frac(30, 1)
        ELSE IF completionTime < 5 * 60000
        THEN Frac(10 * 15000 + completionTime, 15000)
        ELSE Frac(60 * 30000 - completionTime, 30000)

\* private calculateTimeScore(session), with minutes = completionTime / 60000
calculateTimeScore(session) ==
    LET completionTime == CompletionTime(session)
    IN  IF completionTime = 0 THEN Frac(15, 1)
        ELSE IF completionTime >= 5 * 60000 /\ completionTime <= 15 * 60000 THEN Frac(30, 1)
        ELSE IF completionTime < 5 * 60000
        \* Math.max(10, 30 - (5 - minutes) * 4)
        THEN FracMax(Frac(10, 1), Frac(10 * 15000 + completionTime, 15000))
        \* Math.max(10, 30 - (minutes - 15) * 2)
        ELSE FracMax(Frac(10, 1), Frac(60 * 30000 - completionTime, 30000))

\* extractInsights(session) ends in a TypeError: the type-specific insights
\* call toString() on the rental_history and goals answers and toLowerCase()
\* on the welcome answer without looking at what they hold
extractInsightsThrows(session) ==
    LET responses == session.responses
        NoToString(id) ==
            id \in DOMAIN responses /\ responses[id].response.kind \in {"null", "undefined"}
    IN  /\ getInterviewType(session.interviewType) # NoType
        /\ CASE session.interviewType = "tenant-screening" -> NoToString("rental_history")
              [] session.interviewType = "customer-onboarding" ->
                    "welcome" \in DOMAIN responses /\ ~IsString(responses["welcome"].response)
              [] session.interviewType = "general" -> NoToString("goals")
              [] OTHER -> FALSE

\* calculateScore(session)
calculateScore(session) ==
    LET def == getInterviewType(session.interviewType)
    IN  IF def = NoType THEN 0
        ELSE FracRound(FracMin(FracAdd(FracAdd(completenessScore(session, def),
                                               calculateQualityScore(session)),
                                       calculateTimeScore(session)),
                               Frac(100, 1)))

\* a generateAnalysis that counts the answers to required questions only
generateAnalysisCountsRequired(session) ==
    LET def == getInterviewType(session.interviewType)
    IN  [completionTime |-> IF session.completedAt # NoDate
                            THEN session.completedAt - session.createdAt ELSE 0,
         responseCount |-> Cardinality({i \in 1..Len(def.questions) :
                                           /\ def.questions[i].required
                                           /\ def.questions[i].id \in DOMAIN session.responses}),
         completionRate |-> 1]

\* generateAnalysis(session) for a completed session: the timing and counting
\* fields of the AnalysisResult
generateAnalysis(session) ==
    [completionTime |-> IF session.completedAt # NoDate
                        THEN session.completedAt - session.createdAt ELSE 0,
     responseCount |-> Cardinality(DOMAIN session.responses),
     completionRate |-> 1,
     score |-> calculateScore(session)]

(***************************************************************************)
(* Storage holds one session, created by createSession.  SerialSession(k)  *)
(* is that session after k questions were answered one request at a time.  *)
(***************************************************************************)
SessionId == "s1"

\* a type-appropriate answer, as completeInterview of the test helpers picks it
ValidAnswer(q) ==
    CASE q.type = "scale" -> Str("3")
      [] q.type = "yes_no" -> Str("yes")
      [] q.type = "multiple_choice" ->
            IF q.options # NoOptions THEN Str(q.options[1]) ELSE Str("test")
      [] q.type = "number" -> Num(5000)
      [] q.type = "date" -> Str("2026-03-15")
      [] q.type = "multiple_select" ->
            IF q.options # NoOptions THEN Arr(<<q.options[1]>>) ELSE Arr(<<"test">>)
      [] OTHER -> Str("a")

RECURSIVE SerialSession(_)
SerialSession(k) ==
    IF k = 0 THEN createSession(SessionId, "general", 0)
    ELSE LET prev == SerialSession(k - 1)
             out == processResponse(prev, ValidAnswer(getNextQuestion(prev)), 0)
         IN  updateSession(prev, out.result.updates, 0)

NoSession == [id |-> "null"]
\* generateAnalysis has not returned a result
NoAnalysis == [completionRate |-> 0]
NoResult == [success |-> FALSE, completed |-> FALSE, error |-> "not called",
             nextQuestion |-> NoQuestion, updates |-> NoUpdates]

\* a storage of several sessions and the outcome of a SessionManager call
\* the id 'non-existent' of the tests: uuidv4 never returns it
NonExistent == 0
EmptyStore(kind) == [kind |-> kind, rows |-> <<>>, issued |-> 0]
NoFilters == NoUpdates
NoReturn == [op |-> "none", id |-> NonExistent, thrown |-> "none",
             session |-> NoSession, filters |-> NoFilters, list |-> <<>>]
Returned(op, id, session) ==
    [NoReturn EXCEPT !.op = op, !.id = id, !.session = session]
Threw(op, id, message) ==
    [NoReturn EXCEPT !.op = op, !.id = id, !.thrown = message]

\* the other parts of the model do not use this storage
StoreIdle ==
    /\ store = EmptyStore("memory")
    /\ ret = NoReturn

\* no row in the interviews table and no persistWorkflowState call
NoRow == [phase |-> "none", exchanges |-> <<>>, contextDocument |-> Undefined,
          recommendations |-> Undefined, completed |-> FALSE]
PersistIdle == row = NoRow /\ tasks = <<>>

\* the wall clock advances
Tick ==
    /\ clock < MaxClock
    /\ clock' = clock + 1
    /\ UNCHANGED <<wfVars, auxVars, stored, req, call, overlap>>

(***************************************************************************)
(* A single caller using the library API directly, one call at a time:     *)
(* getSession, processResponse, then updateSession with result.updates     *)
(* (completeInterview in the test helpers), and pauseSession/resumeSession.*)
(***************************************************************************)
EngineValues == {Str(""), Str("a"), Str("3"), Null, Undef}

IdleCall == [pc |-> "idle", session |-> NoSession, response |-> Undef,
             result |-> NoResult, thrown |-> "none", analysis |-> NoAnalysis]

\* the type-appropriate answers to the questions of all interview types
AllValidAnswers ==
    UNION {{ValidAnswer(INTERVIEW_TYPES[t].questions[i]) :
                i \in 1..Len(INTERVIEW_TYPES[t].questions)} : t \in DOMAIN INTERVIEW_TYPES}

\* the caller's previous call has returned or thrown
CallFinished == call.pc \in {"idle", "persisted", "rejected", "paused", "resumed",
                             "threw", "analyzed"}

\* the answer completeInterview gives to the question storage is at
NextValidAnswer ==
    LET q == getNextQuestion(stored)
    IN  IF q = NoQuestion THEN Str("a") ELSE ValidAnswer(q)

InitEngineFor(t) ==
    /\ stored = createSession(SessionId, t, 0)
    /\ call = IdleCall
    /\ clock = 0
    /\ req = <<>>
    /\ overlap = FALSE

InitEngine ==
    /\ stored = createSession(SessionId, "general", 0)
    /\ call = IdleCall
    /\ clock = 0
    /\ req = <<>>
    /\ overlap = FALSE

\* const session = await manager.getSession(id)
EngineLoad(response) ==
    /\ CallFinished
    /\ response \in EngineValues \cup {NextValidAnswer}
    /\ call' = [IdleCall EXCEPT !.pc = "loaded", !.session = stored, !.response = response]
    /\ UNCHANGED <<stored, clock, wfVars, auxVars, req, overlap>>

\* const result = await engine.processResponse(session, response)
EngineProcess ==
    /\ call.pc = "loaded"
    /\ LET out == processResponse(call.session, call.response, clock)
       IN  call' = [call EXCEPT !.pc = IF out.result.success THEN "processed" ELSE "rejected",
                                !.session = out.session,
                                !.result = out.result]
    /\ UNCHANGED <<stored, clock, wfVars, auxVars, req, overlap>>

\* await manager.updateSession(session.id, result.updates || {})
EnginePersist ==
    /\ call.pc = "processed"
    /\ stored' = updateSession(stored, call.result.updates, clock)
    /\ call' = [call EXCEPT !.pc = "persisted"]
    /\ UNCHANGED <<clock, wfVars, auxVars, req, overlap>>

\* a pauseSession / resumeSession without the completed check
EngineLifecycleUnchecked(target) ==
    /\ CallFinished
    /\ stored' = updateSession(stored, [status |-> target], clock)
    /\ call' = [IdleCall EXCEPT !.pc = IF target = "paused" THEN "paused" ELSE "resumed"]
    /\ UNCHANGED <<clock, wfVars, auxVars, req, overlap>>

\* manager.pauseSession(id) / manager.resumeSession(id), run to completion
EngineLifecycle(target) ==
    /\ CallFinished
    /\ IF stored.status = "completed"
       THEN /\ call' = [IdleCall EXCEPT !.pc = "threw", !.thrown = "invalid transition"]
            /\ stored' = stored
       ELSE /\ stored' = updateSession(stored, [status |-> target], clock)
            /\ call' = [IdleCall EXCEPT !.pc = IF target = "paused" THEN "paused" ELSE "resumed"]
    /\ UNCHANGED <<clock, wfVars, auxVars, req, overlap>>

\* analyzer.generateAnalysis(session) on the session storage holds
EngineAnalyze ==
    /\ CallFinished
    /\ call' = IF stored.status # "completed"
               THEN [IdleCall EXCEPT !.pc = "threw",
                                     !.thrown = "Cannot analyze incomplete session"]
               ELSE IF extractInsightsThrows(stored)
               THEN [IdleCall EXCEPT !.pc = "threw", !.thrown = "TypeError"]
               ELSE [IdleCall EXCEPT !.pc = "analyzed", !.session = stored,
                                     !.analysis = generateAnalysis(stored)]
    /\ UNCHANGED <<stored, clock, wfVars, auxVars, req, overlap>>

NextEngine ==
    \/ Tick
    \/ \E response \in EngineValues \cup AllValidAnswers : EngineLoad(response)
    \/ EngineProcess
    \/ EnginePersist
    \/ \E target \in {"paused", "active"} : EngineLifecycle(target)
    \/ EngineAnalyze


(***************************************************************************)
(* The HTTP handlers POST /sessions/:id/respond, /pause and /resume, run   *)
(* concurrently: every await on storage is a point where another request   *)
(* may run.                                                                *)
(***************************************************************************)
Requests == 1..NumRequests
\* request bodies that pass the route's own checks (response given, size)
HttpResponses == {Str(""), Str("a"), Str("3")}

IdleRequest == [kind |-> "none", pc |-> "idle", response |-> Undef,
                session |-> NoSession, result |-> NoResult,
                updates |-> NoUpdates, loaded |-> NoSession, status |-> 0]

InFlight(r) == req[r].pc \notin {"idle", "done"}

InitSessions ==
    /\ \E k \in 0..GeneralInterviewType.maxSteps : stored = SerialSession(k)
    /\ req = [r \in Requests |-> IdleRequest]
    /\ call = IdleCall
    /\ overlap = FALSE
    /\ clock = 0

\* a request arrives; requests are numbered in order of arrival
Arrive(r, kind, response) ==
    /\ req[r].pc = "idle"
    /\ \A r0 \in Requests : r0 < r => req[r0].pc # "idle"
    /\ req' = [req EXCEPT ![r] = [IdleRequest EXCEPT !.kind = kind, !.pc = "get",
                                                     !.response = response]]
    /\ overlap' = (overlap \/ \E r0 \in Requests : InFlight(r0))
    /\ UNCHANGED <<stored, clock, wfVars, auxVars, call>>

\* respond: const session = await sessionManager.getSession(id), status check
RespondGet(r) ==
    /\ req[r].kind = "respond" /\ req[r].pc = "get"
    /\ req' = [req EXCEPT ![r] =
                 IF stored.status # "active"
                 THEN [@ EXCEPT !.pc = "done", !.session = stored, !.status = 400]
                 ELSE [@ EXCEPT !.pc = "process", !.session = stored]]
    /\ UNCHANGED <<stored, overlap, clock, wfVars, auxVars, call>>

\* respond: const result = await interviewEngine.processResponse(session, response)
RespondProcess(r) ==
    /\ req[r].kind = "respond" /\ req[r].pc = "process"
    /\ LET out == processResponse(req[r].session, req[r].response, clock)
       IN  req' = [req EXCEPT ![r] =
                     IF ~out.result.success
                     THEN [@ EXCEPT !.pc = "done", !.session = out.session,
                                    !.result = out.result, !.status = 400]
                     ELSE [@ EXCEPT !.pc = "updateLoad", !.session = out.session,
                                    !.result = out.result,
                                    !.updates = out.result.updates]]
    /\ UNCHANGED <<stored, overlap, clock, wfVars, auxVars, call>>

\* pause / resume: the load and the completed check of pauseSession / resumeSession
LifecycleCheck(r) ==
    /\ req[r].kind \in {"pause", "resume"} /\ req[r].pc = "get"
    /\ req' = [req EXCEPT ![r] =
                 IF stored.status = "completed"
                 THEN [@ EXCEPT !.pc = "done", !.session = stored, !.status = 400]
                 ELSE [@ EXCEPT !.pc = "updateLoad", !.session = stored,
                                !.updates = [status |-> IF req[r].kind = "pause"
                                                        THEN "paused" ELSE "active"]]]
    /\ UNCHANGED <<stored, overlap, clock, wfVars, auxVars, call>>

\* updateSession: const session = await this.storage.load(sessionId)
UpdateLoad(r) ==
    /\ req[r].pc = "updateLoad"
    /\ req' = [req EXCEPT ![r] = [@ EXCEPT !.pc = "updateSave", !.loaded = stored]]
    /\ UNCHANGED <<stored, overlap, clock, wfVars, auxVars, call>>

\* updateSession: merge and await this.storage.save(updatedSession); res.json(...)
UpdateSave(r) ==
    /\ req[r].pc = "updateSave"
    /\ stored' = updateSession(req[r].loaded, req[r].updates, clock)
    /\ req' = [req EXCEPT ![r] = [@ EXCEPT !.pc = "done", !.status = 200]]
    /\ UNCHANGED <<overlap, clock, wfVars, auxVars, call>>

NextSessions ==
    \/ Tick
    \/ \E r \in Requests, response \in HttpResponses : Arrive(r, "respond", response)
    \/ \E r \in Requests, kind \in {"pause", "resume"} : Arrive(r, kind, Undef)
    \/ \E r \in Requests : RespondGet(r)
    \/ \E r \in Requests : RespondProcess(r)
    \/ \E r \in Requests : LifecycleCheck(r)
    \/ \E r \in Requests : UpdateLoad(r)
    \/ \E r \in Requests : UpdateSave(r)

(***************************************************************************)
(* A test calling the engine on a session object it built by hand: a       *)
(* created session whose currentStep and responses it assigned             *)
(* (interview-engine.test.ts).  The calls can be made in any order and     *)
(* repeated.                                                               *)
(***************************************************************************)
\* a ResponseData entry for question q of def
EntryFor(def, i) ==
    [response |-> ValidAnswer(def.questions[i]),
     metadata |-> [questionId |-> def.questions[i].id,
                   questionType |-> def.questions[i].type,
                   step |-> i - 1],
     timestamp |-> 0]

\* the responses object holding entries for the questions numbered in idx
ResponsesOf(def, idx) ==
    [id \in {def.questions[i].id : i \in idx} |->
        EntryFor(def, CHOOSE i \in idx : def.questions[i].id = id)]

\* the responses a hand-built session of def at step k carries: none, those
\* of the questions before the cursor, those of the required questions, all
HandResponses(def, k) ==
    LET all == 1..Len(def.questions)
    IN  {ResponsesOf(def, {}),
         ResponsesOf(def, {i \in all : i <= k}),
         ResponsesOf(def, {i \in all : def.questions[i].required}),
         ResponsesOf(def, all)}

HandSessionsOf(t) ==
    UNION {{[createSession(SessionId, t, 0) EXCEPT !.currentStep = k, !.responses = r] :
                r \in HandResponses(INTERVIEW_TYPES[t], k)} :
           k \in 0..(INTERVIEW_TYPES[t].maxSteps + MaxPast)}

HandSessions == UNION {HandSessionsOf(t) : t \in DOMAIN INTERVIEW_TYPES}

ApiInit ==
    /\ WorkflowIdle
    /\ StoreIdle
    /\ PersistIdle
    /\ \E session \in HandSessions :
          /\ call = [IdleCall EXCEPT !.pc = "held", !.session = session]
          /\ stored = createSession(SessionId, session.interviewType, 0)
    /\ clock = 0
    /\ req = <<>>
    /\ overlap = FALSE

\* const completed = await engine.checkCompletion(session)
ApiCheckCompletion ==
    /\ call.pc # "idle"
    /\ call' = [call EXCEPT !.pc = "checked",
                            !.result = [NoResult EXCEPT !.completed = checkCompletion(call.session),
                                                        !.error = ""]]
    /\ UNCHANGED <<stored, clock, wfVars, auxVars, req, overlap>>

\* const question = await engine.getNextQuestion(session)
ApiGetNextQuestion ==
    /\ call.pc # "idle"
    /\ call' = [call EXCEPT !.pc = IF call.pc \in {"asked", "askedAgain"}
                                   THEN "askedAgain" ELSE "asked",
                            !.result = [NoResult EXCEPT !.nextQuestion = getNextQuestion(call.session),
                                                        !.error = ""]]
    /\ UNCHANGED <<stored, clock, wfVars, auxVars, req, overlap>>

\* the answers the test gives: the type-appropriate one and an empty one
ApiValues ==
    LET def == getInterviewType(call.session.interviewType)
        q == QuestionAt(def, call.session.currentStep)
    IN  {Str(""), IF q = NoQuestion THEN Str("a") ELSE ValidAnswer(q)}

\* const result = await engine.processResponse(session, response)
ApiProcessResponse(response) ==
    /\ call.pc # "idle"
    /\ response \in ApiValues
    /\ LET out == processResponse(call.session, response, clock)
       IN  call' = [call EXCEPT !.pc = IF out.result.success THEN "processed" ELSE "rejected",
                                !.response = response,
                                !.session = out.session,
                                !.result = out.result]
    /\ UNCHANGED <<stored, clock, wfVars, auxVars, req, overlap>>

NextApi ==
    \/ ApiCheckCompletion
    \/ ApiGetNextQuestion
    \/ \E response \in {Str("")} \cup AllValidAnswers : ApiProcessResponse(response)

(***************************************************************************)
(* A caller of SessionManager alone: updateSession with partial fields of  *)
(* its choosing, pauseSession and resumeSession, one call at a time        *)
(* (session-manager.test.ts).                                              *)
(***************************************************************************)
\* the partial sessions handed to updateSession
PartialSessions ==
    {[currentStep |-> 2],
     [status |-> "completed"],
     [status |-> "active"],
     [completedAt |-> NoDate]}
    \cup {[completedAt |-> d] : d \in 0..MaxClock}

ManagerInit ==
    /\ WorkflowIdle
    /\ StoreIdle
    /\ PersistIdle
    /\ \E t \in {"general", "tenant-screening"} : InitEngineFor(t)

\* await manager.updateSession(session.id, updates)
ManagerUpdate(updates) ==
    /\ stored' = updateSession(stored, updates, clock)
    /\ call' = [IdleCall EXCEPT !.pc = "persisted"]
    /\ UNCHANGED <<clock, wfVars, auxVars, req, overlap>>

NextManager ==
    \/ Tick
    \/ \E updates \in PartialSessions : ManagerUpdate(updates)
    \/ \E target \in {"paused", "active"} : EngineLifecycle(target)

(***************************************************************************)
(* A caller of the Analyzer on a session object of its own making: any     *)
(* status, any number of responses of any content, any elapsed time        *)
(* (analyzer.test.ts builds such sessions by assignment).                  *)
(***************************************************************************)
\* a text response of more than 20 characters
LongText == "a description of the issue in detail"
\* what the response of an entry may hold
ScoredValues ==
    {Str(""), Str(" "), Str("a"), Str(LongText), Num(0), Num(5000), Bool(FALSE), Null,
     Arr(<<>>), Arr(<<"Email", "Phone">>)}
\* the values every second entry holds
SecondValues == {Str("a"), Str(LongText), Null}
\* completedAt - createdAt in ms: a clock that went backwards, none, 1 ms,
\* 1 min, just under and at 5 min, 15 min and just over, 25 min, 1 hour
ElapsedTimes == {-60000, 0, 1, 60000, 299999, 300000, 900000, 900001, 1500000, 3600000}
\* the instant the analysed sessions were created at, in ms
CreatedAt == 60000
\* an interview type that is not in the registry
UnknownType == "nonexistent"

\* the ids the first n responses of a hand-made session are stored under:
\* the question ids of def, then a key that is no question's id
ResponseKeys(def, n) ==
    {def.questions[i].id : i \in 1..(IF n < Len(def.questions) THEN n ELSE Len(def.questions))}
        \cup (IF n > Len(def.questions) THEN {"extra"} ELSE {})

\* the position of a key among the response keys
KeyIndex(def, id) ==
    IF \E i \in 1..Len(def.questions) : def.questions[i].id = id
    THEN CHOOSE i \in 1..Len(def.questions) : def.questions[i].id = id
    ELSE Len(def.questions) + 1

\* a session of type t with n responses holding first and second by turns
AnalysedSession(t, n, first, second, status, completedAt) ==
    LET def == IF t \in DOMAIN INTERVIEW_TYPES THEN INTERVIEW_TYPES[t] ELSE GeneralInterviewType
    IN  [createSession(SessionId, t, CreatedAt) EXCEPT
            !.status = status,
            !.currentStep = n,
            !.completedAt = completedAt,
            !.responses =
                [id \in ResponseKeys(def, n) |->
                    [response |-> IF KeyIndex(def, id) % 2 = 1 THEN first ELSE second,
                     metadata |-> [questionId |-> id, questionType |-> "text",
                                   step |-> KeyIndex(def, id) - 1],
                     timestamp |-> CreatedAt]]]

AnalysedSessionsOf(t) ==
    LET def == IF t \in DOMAIN INTERVIEW_TYPES THEN INTERVIEW_TYPES[t] ELSE GeneralInterviewType
    IN  {AnalysedSession(t, n, first, second, status, completedAt) :
            n \in 0..(def.maxSteps + MaxPast), first \in ScoredValues,
            second \in SecondValues, status \in {"active", "paused", "completed"},
            completedAt \in {NoDate} \cup {CreatedAt + e : e \in ElapsedTimes}}

AnalyzerInit ==
    /\ \E t \in DOMAIN INTERVIEW_TYPES \cup {UnknownType} :
          \E session \in AnalysedSessionsOf(t) :
             call = [IdleCall EXCEPT !.pc = "held", !.session = session]
    /\ stored = createSession(SessionId, "general", 0)
    /\ clock = 0
    /\ req = <<>>
    /\ overlap = FALSE

\* a getProgress whose percentage is not capped
getProgressUncapped(session) ==
    LET interviewType == getInterviewType(session.interviewType)
    IN  [currentStep |-> session.currentStep,
         totalSteps |-> interviewType.maxSteps,
         completionPercentage |->
             FracRound(Frac(session.currentStep * 100, interviewType.maxSteps))]

\* InterviewEngine.getProgress(session) of a session of a registered type
getProgress(session) ==
    LET interviewType == getInterviewType(session.interviewType)
    IN  [currentStep |-> session.currentStep,
         totalSteps |-> interviewType.maxSteps,
         completionPercentage |->
             LET rounded == FracRound(Frac(session.currentStep * 100, interviewType.maxSteps))
             IN  IF rounded < 100 THEN rounded ELSE 100]

\* const progress = await engine.getProgress(session)
AnalyzerGetProgress ==
    /\ call.pc # "idle"
    /\ call' = IF getInterviewType(call.session.interviewType) = NoType
               THEN [call EXCEPT !.pc = "progressThrew", !.thrown = "Invalid interview type",
                                 !.analysis = NoAnalysis]
               ELSE [call EXCEPT !.pc = "progress", !.thrown = "none",
                                 !.analysis = getProgress(call.session)]
    /\ UNCHANGED <<stored, clock, wfVars, auxVars, req, overlap>>

\* a generateAnalysis without the status check
AnalyzerGenerateAnalysisUnchecked ==
    /\ call.pc # "idle"
    /\ call' = [call EXCEPT !.pc = "analyzed", !.thrown = "none",
                            !.analysis = generateAnalysis(call.session)]
    /\ UNCHANGED <<stored, clock, wfVars, auxVars, req, overlap>>

\* const analysis = await analyzer.generateAnalysis(session)
AnalyzerGenerateAnalysis ==
    /\ call.pc # "idle"
    /\ call' = IF call.session.status # "completed"
               THEN [call EXCEPT !.pc = "threw",
                                 !.thrown = "Cannot analyze incomplete session",
                                 !.analysis = NoAnalysis]
               ELSE IF extractInsightsThrows(call.session)
               THEN [call EXCEPT !.pc = "threw", !.thrown = "TypeError",
                                 !.analysis = NoAnalysis]
               ELSE [call EXCEPT !.pc = "analyzed", !.thrown = "none",
                                 !.analysis = generateAnalysis(call.session)]
    /\ UNCHANGED <<stored, clock, wfVars, auxVars, req, overlap>>

\* const score = await analyzer.calculateScore(session)
AnalyzerCalculateScore ==
    /\ call.pc # "idle"
    /\ call' = [call EXCEPT !.pc = "scored", !.thrown = "none",
                            !.analysis = [score |-> calculateScore(call.session)]]
    /\ UNCHANGED <<stored, clock, wfVars, auxVars, req, overlap>>

NextAnalyzer ==
    \/ AnalyzerGenerateAnalysis
    \/ AnalyzerCalculateScore
    \/ AnalyzerGetProgress

(***************************************************************************)
(* Part III: SessionManager over a storage that holds several sessions     *)
(* (MemoryStorage of the tests, PostgresSessionStorage in the service),    *)
(* called by one caller, one call at a time.                               *)
(***************************************************************************)
UserIds == {"user-1", "user-2"}
StorageKinds == {"memory", "postgres"}
SessionIds == NonExistent..MaxSessions

\* uuidv4(): a value no earlier call returned; the n-th call returns n
uuidv4(issued) == issued + 1

\* isValidInterviewType(type): type in INTERVIEW_TYPES
isValidInterviewType(type) == type \in DOMAIN INTERVIEW_TYPES

\* createSession(params) with the id uuidv4 handed out: the session built
createSessionOf(p, id, now) ==
    Spread(createSession(id, p.interviewType, now), [userId |-> p.userId])

\* the position of the row with this id, 0 when there is none
RowOf(rows, sessionId) ==
    IF \E i \in 1..Len(rows) : rows[i].id = sessionId
    THEN CHOOSE i \in 1..Len(rows) : rows[i].id = sessionId
    ELSE 0

\* storage.load(sessionId)
StorageLoad(rows, sessionId) ==
    IF RowOf(rows, sessionId) = 0 THEN NoSession ELSE rows[RowOf(rows, sessionId)]

\* storage.save(session): Map.set keeps the position of an existing key and
\* overwrites the value; INSERT ... ON CONFLICT (id) DO UPDATE overwrites the
\* listed columns of the existing row
StorageSave(kind, rows, session) ==
    LET i == RowOf(rows, session.id)
    IN  IF i = 0 THEN Append(rows, session)
        ELSE IF kind = "memory" THEN [rows EXCEPT ![i] = session]
        ELSE [rows EXCEPT ![i] = [@ EXCEPT !.status = session.status,
                                           !.currentStep = session.currentStep,
                                           !.responses = session.responses,
                                           !.updatedAt = session.updatedAt,
                                           !.completedAt = session.completedAt]]

\* storage.delete(sessionId)
StorageDelete(rows, sessionId) == SelectSeq(rows, LAMBDA s : s.id # sessionId)

\* a filter field that is supplied: filters.f is neither undefined nor falsy
Has(filters, f) == f \in DOMAIN filters

\* the conditions of list(filters): every supplied filter must match
Matches(s, filters) ==
    /\ Has(filters, "userId") => s.userId = filters.userId
    /\ Has(filters, "interviewType") => s.interviewType = filters.interviewType
    /\ Has(filters, "status") => s.status = filters.status
    /\ Has(filters, "createdAfter") => s.createdAt >= filters.createdAfter
    /\ Has(filters, "createdBefore") => s.createdAt <= filters.createdBefore

\* Array.prototype.slice(from) and slice(0, n) on a sequence
SliceFrom(seq, from) == SubSeq(seq, from + 1, Len(seq))
SliceTo(seq, n) == SubSeq(seq, 1, IF n < Len(seq) THEN n ELSE Len(seq))

\* a list(filters) that cuts the page out of all rows and filters it afterwards
PaginateBeforeFilter(rows, filters) ==
    LET skipped == IF Has(filters, "offset") /\ filters.offset > 0
                   THEN SliceFrom(rows, filters.offset) ELSE rows
        page == IF Has(filters, "limit") /\ filters.limit > 0
                THEN SliceTo(skipped, filters.limit) ELSE skipped
    IN  {SelectSeq(page, LAMBDA s : Matches(s, filters))}

\* the offset and limit of list(filters), applied to the filtered rows
Paginate(seq, filters) ==
    LET skipped == IF Has(filters, "offset") /\ filters.offset > 0
                   THEN SliceFrom(seq, filters.offset) ELSE seq
    IN  IF Has(filters, "limit") /\ filters.limit > 0
        THEN SliceTo(skipped, filters.limit) ELSE skipped

\* ORDER BY created_at DESC: the orders a query may return the rows in; rows
\* with equal created_at come in any order
OrderedByCreatedAtDesc(seq) ==
    {o \in {[i \in 1..Len(seq) |-> seq[p[i]]] : p \in Permutations(1..Len(seq))} :
        \A i \in 1..(Len(o) - 1) : o[i].createdAt >= o[i + 1].createdAt}

\* MemoryStorage.list(filters)
MemoryList(rows, filters) ==
    {Paginate(SelectSeq(rows, LAMBDA s : Matches(s, filters)), filters)}

\* PostgresSessionStorage.list(filters): the results the query may return
PostgresList(rows, filters) ==
    {Paginate(o, filters) :
        o \in OrderedByCreatedAtDesc(SelectSeq(rows, LAMBDA s : Matches(s, filters)))}

\* storage.list(filters)
StorageList(kind, rows, filters) ==
    IF kind = "memory" THEN MemoryList(rows, filters) ELSE PostgresList(rows, filters)

\* a createSession that takes the user's id as the session's id
StoreCreateIdFromUser(userId, interviewType) ==
    /\ store.issued < MaxSessions
    /\ IF ~isValidInterviewType(interviewType)
       THEN /\ ret' = Threw("createSession", NonExistent, "Invalid interview type")
            /\ store' = store
       ELSE LET id == IF userId = "user-1" THEN 1 ELSE 2
                session == createSessionOf([userId |-> userId,
                                            interviewType |-> interviewType],
                                           id, clock)
            IN  /\ store' = [store EXCEPT !.rows = StorageSave(store.kind, @, session),
                                          !.issued = @ + 1]
                /\ ret' = Returned("createSession", session.id, session)
    /\ UNCHANGED <<wfVars, stored, req, call, overlap, clock, persistVars, histVars, clientVars>>

\* manager.createSession({userId, interviewType})
StoreCreate(userId, interviewType) ==
    /\ store.issued < MaxSessions
    /\ IF ~isValidInterviewType(interviewType)
       THEN /\ ret' = Threw("createSession", NonExistent, "Invalid interview type")
            /\ store' = store
       ELSE LET session == createSessionOf([userId |-> userId,
                                            interviewType |-> interviewType],
                                           uuidv4(store.issued), clock)
            IN  /\ store' = [store EXCEPT !.rows = StorageSave(store.kind, @, session),
                                          !.issued = @ + 1]
                /\ ret' = Returned("createSession", session.id, session)
    /\ UNCHANGED <<wfVars, stored, req, call, overlap, clock, persistVars, histVars, clientVars>>

\* manager.getSession(sessionId)
StoreGet(sessionId) ==
    /\ ret' = Returned("getSession", sessionId, StorageLoad(store.rows, sessionId))
    /\ UNCHANGED <<wfVars, stored, req, call, overlap, clock, store, persistVars, histVars, clientVars>>

\* manager.updateSession(sessionId, updates)
StoreUpdate(sessionId, updates) ==
    /\ LET session == StorageLoad(store.rows, sessionId)
           updatedSession == updateSession(session, updates, clock)
       IN  IF session = NoSession
           THEN /\ ret' = Threw("updateSession", sessionId, "Session not found")
                /\ store' = store
           ELSE /\ store' = [store EXCEPT !.rows = StorageSave(store.kind, @, updatedSession)]
                /\ ret' = Returned("updateSession", sessionId, updatedSession)
    /\ UNCHANGED <<wfVars, stored, req, call, overlap, clock, persistVars, histVars, clientVars>>

\* manager.pauseSession(sessionId) / manager.resumeSession(sessionId)
StoreLifecycle(sessionId, target) ==
    /\ LET op == IF target = "paused" THEN "pauseSession" ELSE "resumeSession"
           session == StorageLoad(store.rows, sessionId)
           updatedSession == updateSession(session, [status |-> target], clock)
       IN  IF session = NoSession
           THEN /\ ret' = Threw(op, sessionId, "Session not found")
                /\ store' = store
           ELSE IF session.status = "completed"
           THEN /\ ret' = Threw(op, sessionId, "invalid transition")
                /\ store' = store
           ELSE /\ store' = [store EXCEPT !.rows = StorageSave(store.kind, @, updatedSession)]
                /\ ret' = Returned(op, sessionId, updatedSession)
    /\ UNCHANGED <<wfVars, stored, req, call, overlap, clock, persistVars, histVars, clientVars>>

\* a deleteSession that does not look the session up first
StoreDeleteUnchecked(sessionId) ==
    /\ store' = [store EXCEPT !.rows = StorageDelete(@, sessionId)]
    /\ ret' = Returned("deleteSession", sessionId, NoSession)
    /\ UNCHANGED <<wfVars, stored, req, call, overlap, clock, persistVars, histVars, clientVars>>

\* manager.deleteSession(sessionId)
StoreDelete(sessionId) ==
    /\ IF StorageLoad(store.rows, sessionId) = NoSession
       THEN /\ ret' = Threw("deleteSession", sessionId, "Session not found")
            /\ store' = store
       ELSE /\ store' = [store EXCEPT !.rows = StorageDelete(@, sessionId)]
            /\ ret' = Returned("deleteSession", sessionId, NoSession)
    /\ UNCHANGED <<wfVars, stored, req, call, overlap, clock, persistVars, histVars, clientVars>>

\* manager.listSessions(filters)
StoreList(filters) ==
    /\ \E result \in StorageList(store.kind, store.rows, filters) :
          ret' = [NoReturn EXCEPT !.op = "listSessions", !.filters = filters,
                                  !.list = result]
    /\ UNCHANGED <<wfVars, stored, req, call, overlap, clock, store, persistVars, histVars, clientVars>>

\* the interview types the caller asks for: one of the registry, one unknown
RequestedTypes == {"general", "invalid-type"}
\* the partial sessions the caller hands to updateSession
StoreUpdates == {[currentStep |-> 2], [status |-> "completed"]}

StoreInit ==
    /\ \E kind \in StorageKinds : store = EmptyStore(kind)
    /\ ret = NoReturn

NextStore ==
    \/ \E userId \in UserIds, interviewType \in RequestedTypes :
          StoreCreate(userId, interviewType)
    \/ \E sessionId \in SessionIds : StoreGet(sessionId)
    \/ \E sessionId \in SessionIds, updates \in StoreUpdates : StoreUpdate(sessionId, updates)
    \/ \E sessionId \in SessionIds, target \in {"paused", "active"} :
          StoreLifecycle(sessionId, target)
    \/ \E sessionId \in SessionIds : StoreDelete(sessionId)
    \/ StoreList(NoFilters)

(***************************************************************************)
(* A caller of listSessions on a storage that already holds sessions of    *)
(* several users, types and statuses: it lists with some filters and then  *)
(* asks for a page of the same list.                                       *)
(***************************************************************************)
\* what the stored sessions differ in: the user, the type and the status
ListedProfiles ==
    {[userId |-> "user-1", interviewType |-> "general", status |-> "active"],
     [userId |-> "user-1", interviewType |-> "general", status |-> "paused"],
     [userId |-> "user-2", interviewType |-> "general", status |-> "paused"],
     [userId |-> "user-1", interviewType |-> "tenant-screening", status |-> "paused"]}

\* the instants (ms) the stored sessions were created at, in insertion order
CreationTimes(n) ==
    {t \in [1..n -> 0..1] : \A i \in 1..(n - 1) : t[i] <= t[i + 1]}

\* the rows n createSession calls and later status updates leave behind
ListedRows(n) ==
    {[i \in 1..n |->
        [createSessionOf(profile[i], i, t[i]) EXCEPT !.status = profile[i].status]] :
        profile \in [1..n -> ListedProfiles], t \in CreationTimes(n)}

\* the filters of the claim, without pagination
ListFilters ==
    {Spread(Spread(u, t), st) :
        u \in {NoFilters, [userId |-> "user-1"]},
        t \in {NoFilters, [interviewType |-> "general"]},
        st \in {NoFilters, [status |-> "paused"]}}

\* the pages a caller asks for: offsets up to past the end, limits from 0
ListPages ==
    {Spread(o, l) :
        o \in {NoFilters} \cup {[offset |-> n] : n \in {0, 1, MaxSessions + 1}},
        l \in {NoFilters} \cup {[limit |-> n] : n \in {0, 1, 2}}} \ {NoFilters}

ListInit ==
    /\ \E kind \in StorageKinds, n \in 0..MaxSessions :
          \E rows \in ListedRows(n) :
             store = [kind |-> kind, rows |-> rows, issued |-> n]
    /\ ret = NoReturn

\* const all = await manager.listSessions(filters)
ListAll(filters) ==
    /\ ~Has(filters, "offset") /\ ~Has(filters, "limit")
    /\ StoreList(filters)

\* const page = await manager.listSessions({...filters, ...page}), asked
\* for after the whole list of the same filters
ListPage(filters, page) ==
    /\ ret.op = "listSessions"
    /\ ret.filters = filters
    /\ StoreList(Spread(filters, page))

NextList ==
    \/ \E filters \in ListFilters : ListAll(filters)
    \/ \E filters \in ListFilters, page \in ListPages : ListPage(filters, page)

(***************************************************************************)
(* Part IV: the snapshot row of a workflow interview.  POST /interviews    *)
(* starts the workflow and inserts the row; the respond and context routes *)
(* hand their signal to the server (its delivery to the workflow is the    *)
(* RespondSignal / EditContextSignal step) and start persistWorkflowState  *)
(* in the background without awaiting it.                                  *)
(***************************************************************************)
\* retries = 3 of persistWorkflowState
retries == 3

\* dataStore.saveInterview(workflowId, state): the row after the upsert
saveInterview(old, state) ==
    IF old = NoRow
    THEN [phase |-> state.phase, exchanges |-> state.exchanges,
          contextDocument |-> state.contextDocument,
          recommendations |-> state.recommendations,
          completed |-> FALSE]
    ELSE [phase |-> state.phase, exchanges |-> state.exchanges,
          contextDocument |-> state.contextDocument,
          recommendations |-> state.recommendations,
          completed |-> IF state.phase = "complete" THEN TRUE ELSE old.completed]

\* the state POST /interviews saves after starting the workflow
InitialState ==
    [phase |-> "prime", exchanges |-> <<>>, contextDocument |-> Undefined,
     recommendations |-> Undefined]

\* a persistWorkflowState call that has just been started
NewTask == [pc |-> "delay", attempt |-> 0, state |-> InitialState]

PersistInit ==
    /\ row = saveInterview(NoRow, InitialState)
    /\ tasks = <<>>

\* persistWorkflowState(handle, id, dataStore).catch(...): a route has sent
\* its signal and starts the background persist
PersistStart ==
    /\ Len(tasks) < MaxPersists
    /\ tasks' = Append(tasks, NewTask)
    /\ UNCHANGED <<wfVars, stored, req, call, overlap, clock, storeVars, histVars, clientVars, row>>

\* after the delay: const state = await handle.query(getStateQuery)
PersistQuery(i) ==
    /\ i \in DOMAIN tasks
    /\ tasks[i].pc = "delay"
    /\ pc # "failed"
    /\ tasks' = [tasks EXCEPT ![i].pc = "queried",
                              ![i].state = [phase |-> LiveState.phase,
                                            exchanges |-> LiveState.exchanges,
                                            contextDocument |-> LiveState.contextDocument,
                                            recommendations |-> LiveState.recommendations]]
    /\ UNCHANGED <<wfVars, stored, req, call, overlap, clock, storeVars, histVars, clientVars, row>>

\* await dataStore.saveInterview(workflowId, {...state, sentinelId}); return
PersistSave(i) ==
    /\ i \in DOMAIN tasks
    /\ tasks[i].pc = "queried"
    /\ row' = saveInterview(row, tasks[i].state)
    /\ tasks' = [tasks EXCEPT ![i].pc = "done"]
    /\ UNCHANGED <<wfVars, stored, req, call, overlap, clock, storeVars, histVars, clientVars>>

\* catch (e): the query or the upsert threw; the loop tries again after the
\* delay until the attempts are used up
PersistAttemptFailed(i) ==
    /\ i \in DOMAIN tasks
    /\ tasks[i].pc \in {"delay", "queried"}
    /\ tasks' = [tasks EXCEPT ![i].attempt = @ + 1,
                              ![i].pc = IF tasks[i].attempt + 1 < retries
                                        THEN "delay" ELSE "gaveUp"]
    /\ UNCHANGED <<wfVars, stored, req, call, overlap, clock, storeVars, histVars, clientVars, row>>

\* the processResponse activity returns; the completion check of this
\* scenario ends the interview within MaxRounds questions
BoundedResponseProcessed(complete) ==
    /\ complete \/ questionCount + 1 < MaxRounds
    /\ ResponseProcessed(complete)

NextPersist ==
    \/ PrimeDone
    \/ QuestionGenerated
    \/ InterviewResume
    \/ \E complete \in BOOLEAN : BoundedResponseProcessed(complete)
    \/ ContextSynthesized
    \/ ReviewResume
    \/ RecommendationsGenerated
    \/ \E response \in {"a"} : RespondSignal(response)
    \/ \E editedContext \in EditDocs : EditContextSignal(editedContext)
    \/ PersistStart
    \/ \E i \in 1..MaxPersists : PersistQuery(i)
    \/ \E i \in 1..MaxPersists : PersistSave(i)
    \/ \E i \in 1..MaxPersists : PersistAttemptFailed(i)

(***************************************************************************)
(* Specifications.                                                         *)
(***************************************************************************)
Init == InitWorkflow /\ InitEngine /\ StoreIdle /\ PersistIdle
Next == NextWorkflow
\* the phase machine
Spec == Init /\ [][Next]_vars

\* the engine under a single sequential caller
EngineInit ==
    /\ WorkflowIdle
    /\ StoreIdle
    /\ PersistIdle
    /\ \E t \in DOMAIN INTERVIEW_TYPES : InitEngineFor(t)
EngineSpec == EngineInit /\ [][NextEngine]_vars

\* the session handlers under concurrent requests
\* the engine called on hand-built sessions
ApiSpec == ApiInit /\ [][NextApi]_vars

\* SessionManager called directly
ManagerSpec == ManagerInit /\ [][NextManager]_vars

SessionInit == WorkflowIdle /\ StoreIdle /\ PersistIdle /\ InitSessions
SessionSpec == SessionInit /\ [][NextSessions]_vars

\* SessionManager over a storage of several sessions
StoreSpecInit == WorkflowIdle /\ InitEngine /\ PersistIdle /\ StoreInit
StoreSpec == StoreSpecInit /\ [][NextStore]_vars

\* a 4-phase interview and the background persists of its snapshot row
PersistSpecInit == WorkflowIdle /\ InitEngine /\ StoreIdle /\ PersistInit
PersistSpec == PersistSpecInit /\ [][NextPersist]_vars

\* listSessions and its pages on a filled storage
ListSpecInit == WorkflowIdle /\ InitEngine /\ PersistIdle /\ ListInit
ListSpec == ListSpecInit /\ [][NextList]_vars

\* the Analyzer called on hand-made sessions
AnalyzerSpecInit == WorkflowIdle /\ StoreIdle /\ PersistIdle /\ AnalyzerInit
AnalyzerSpec == AnalyzerSpecInit /\ [][NextAnalyzer]_vars


(***************************************************************************)
(* Part V: the synthesizeContext and generateRecommendations activities    *)
(* with their text-completion call, run by the workflow from the           *)
(* synthesize phase on.                                                    *)
(*                                                                         *)
(* A text is a sequence of its pieces (literal parts and interpolated      *)
(* values); the empty text is <<>>.  A lower-cased question is represented *)
(* by the set of the keywords it includes.                                 *)
(***************************************************************************)
MaxExchanges == 2
MaxRecs == 5

QuestionTexts == {{"timeline"}, {"who"}, {"blocker"}, {"goal"}, {}, {"when", "goal"}}
Transcripts ==
    UNION {[1..n -> [question : QuestionTexts, answer : {"a", "b"}]] : n \in 1..MaxExchanges}

\* qLower.includes(word)
includes(qLower, word) == word \in qLower

\* values JSON.parse can return, and a property that is not there
Absent == [t |-> "absent"]
JsonNull == [t |-> "null"]
JsonStr(s) == [t |-> "string", v |-> s]
JsonArr(a) == [t |-> "array", v |-> a]
JsonObj(o) == [t |-> "object", v |-> o]
JsonNum(n) == [t |-> "number", n |-> n]
\* !!x for such a value
JsonTruthy(x) ==
    \/ x.t \in {"array", "object"}
    \/ (x.t = "string" /\ x.v # <<>>)
    \/ (x.t = "number" /\ x.n # 0)
\* x || []
OrEmpty(x) == IF JsonTruthy(x) THEN x.v ELSE <<>>

\* what await claudeCompletion(...) followed by JSON.parse(raw) comes to
Rejects == [kind |-> "rejects"]
Unparsable == [kind |-> "unparsable"]
Parsed(value) == [kind |-> "json", parsed |-> value]

SynthesisNoteAssumption == <<"Context extracted without AI synthesis - review for accuracy">>
SynthesisNoteUncertainty == <<"AI synthesis was unavailable; manual review recommended">>

\* the branch of the loop body of buildFallbackContext an exchange takes
FallbackSlot(e) ==
    LET qLower == e.question
    IN  IF includes(qLower, "timeline") \/ includes(qLower, "when") \/ includes(qLower, "deadline")
        THEN [list |-> "facts", text |-> <<"Timeline: ", e.answer>>]
        ELSE IF includes(qLower, "stakeholder") \/ includes(qLower, "who")
        THEN [list |-> "facts", text |-> <<"Stakeholders: ", e.answer>>]
        ELSE IF includes(qLower, "constraint") \/ includes(qLower, "limitation")
                \/ includes(qLower, "blocker")
        THEN [list |-> "constraints", text |-> <<e.answer>>]
        ELSE IF includes(qLower, "success") \/ includes(qLower, "goal")
                \/ includes(qLower, "priority")
        THEN [list |-> "priorities", text |-> <<e.answer>>]
        ELSE [list |-> "facts", text |-> <<e.answer>>]

\* what the loop of buildFallbackContext has pushed onto one of its lists
RECURSIVE Pushed(_, _)
Pushed(es, list) ==
    IF es = <<>> THEN <<>>
    ELSE LET slot == FallbackSlot(Head(es))
         IN  (IF slot.list = list THEN <<slot.text>> ELSE <<>>) \o Pushed(Tail(es), list)

\* a fallback document that does not say where it came from
buildFallbackContextSilent(p) ==
    LET facts == Pushed(p.exchanges, "facts")
    IN  [summary |-> <<"Context for ", p.domain, ": ", p.objective>>,
         facts |-> IF Len(facts) > 0 THEN facts ELSE << <<"Interview responses collected">> >>,
         constraints |-> Pushed(p.exchanges, "constraints"),
         priorities |-> Pushed(p.exchanges, "priorities"),
         assumptions |-> <<>>,
         uncertainties |-> <<>>]

buildFallbackContext(p) ==
    LET facts == Pushed(p.exchanges, "facts")
    IN  [summary |-> <<"Context for ", p.domain, ": ", p.objective>>,
         facts |-> IF Len(facts) > 0 THEN facts ELSE << <<"Interview responses collected">> >>,
         constraints |-> Pushed(p.exchanges, "constraints"),
         priorities |-> Pushed(p.exchanges, "priorities"),
         assumptions |-> <<SynthesisNoteAssumption>>,
         uncertainties |-> <<SynthesisNoteUncertainty>>]

\* the try block of synthesizeContext throws: the completion rejects, JSON.parse
\* throws, reading .summary of null throws, or the structure check throws
synthesizeContextCatches(reply) ==
    \/ reply.kind \in {"rejects", "unparsable"}
    \/ reply.parsed.t # "object"
    \/ ~JsonTruthy(reply.parsed.v.summary)
    \/ reply.parsed.v.facts.t # "array"

synthesizeContext(p, reply) ==
    IF synthesizeContextCatches(reply)
    THEN buildFallbackContext(p)
    ELSE LET parsed == reply.parsed.v
         IN  [summary |-> parsed.summary.v,
              facts |-> OrEmpty(parsed.facts),
              constraints |-> OrEmpty(parsed.constraints),
              priorities |-> OrEmpty(parsed.priorities),
              assumptions |-> OrEmpty(parsed.assumptions),
              uncertainties |-> OrEmpty(parsed.uncertainties)]

\* context documents a completion may come back with
FullDocument ==
    [summary |-> JsonStr(<<"s">>), facts |-> JsonArr(<< <<"f">> >>),
     constraints |-> JsonArr(<< <<"c">> >>), priorities |-> JsonArr(<< <<"p">> >>),
     assumptions |-> JsonArr(<< <<"i">> >>), uncertainties |-> JsonArr(<< <<"u">> >>)]
SparseDocument ==
    [summary |-> JsonStr(<<"s">>), facts |-> JsonArr(<< <<"f">> >>),
     constraints |-> Absent, priorities |-> Absent,
     assumptions |-> Absent, uncertainties |-> Absent]
SynthesisReplies ==
    {Rejects, Unparsable, Parsed(JsonNull),
     Parsed(JsonObj(FullDocument)), Parsed(JsonObj(SparseDocument)),
     Parsed(JsonObj([FullDocument EXCEPT !.summary = Absent])),
     Parsed(JsonObj([FullDocument EXCEPT !.summary = JsonStr(<<>>)])),
     Parsed(JsonObj([FullDocument EXCEPT !.facts = Absent])),
     Parsed(JsonObj([FullDocument EXCEPT !.facts = JsonNum(1)]))}

\* the recommendation buildFallbackRecommendations pushes under a title
FallbackRecommendation(title, rationale) ==
    [title |-> <<title>>, rationale |-> rationale,
     nextSteps |-> << <<title, " step 1">>, <<title, " step 2">>, <<title, " step 3">> >>]

buildFallbackRecommendations(p) ==
    LET ctx == p.contextDocument
        recs ==
            (IF Len(ctx.constraints) > 0
             THEN <<FallbackRecommendation("Address Identified Constraints",
                        <<Len(ctx.constraints), " constraint(s) were identified">>)>>
             ELSE <<>>)
            \o (IF Len(ctx.priorities) > 0
                THEN <<FallbackRecommendation("Align on Priorities",
                           <<"Clear priorities were identified">>)>>
                ELSE <<>>)
            \o (IF Len(ctx.uncertainties) > 0
                THEN <<FallbackRecommendation("Resolve Open Questions",
                           <<Len(ctx.uncertainties), " uncertainty(ies) remain">>)>>
                ELSE <<>>)
    IN  IF Len(recs) = 0
        THEN <<FallbackRecommendation("Define Next Steps",
                   <<"Context for ", p.objective, " has been gathered">>)>>
        ELSE recs

\* the try block of generateRecommendations throws: the completion rejects,
\* JSON.parse throws, the value is no array or an empty one, or the map
\* callback reads a property of null
generateRecommendationsCatches(reply) ==
    \/ reply.kind \in {"rejects", "unparsable"}
    \/ reply.parsed.t # "array"
    \/ Len(reply.parsed.v) = 0
    \/ \E i \in 1..Len(reply.parsed.v) : reply.parsed.v[i].t = "null"

\* the callback of parsed.map(...)
ValidatedRecommendation(item) ==
    LET r == item.v
        rec == [title |-> IF JsonTruthy(r.title) THEN r.title.v
                          ELSE <<"Untitled Recommendation">>,
                rationale |-> IF JsonTruthy(r.rationale) THEN r.rationale.v ELSE <<>>,
                nextSteps |-> IF r.nextSteps.t = "array" THEN r.nextSteps.v ELSE <<>>]
    IN  IF JsonTruthy(r.agentToExecute)
        THEN Spread(rec, [agentToExecute |-> r.agentToExecute.v])
        ELSE rec

generateRecommendations(p, reply) ==
    IF generateRecommendationsCatches(reply)
    THEN buildFallbackRecommendations(p)
    ELSE [i \in 1..Len(reply.parsed.v) |-> ValidatedRecommendation(reply.parsed.v[i])]

\* recommendation arrays a completion may come back with
FullItem ==
    JsonObj([title |-> JsonStr(<<"t">>), rationale |-> JsonStr(<<"r">>),
             nextSteps |-> JsonArr(<< <<"n">> >>), agentToExecute |-> JsonStr(<<"agent">>)])
BareItem ==
    JsonObj([title |-> Absent, rationale |-> Absent, nextSteps |-> Absent,
             agentToExecute |-> Absent])
RecommendationReplies ==
    {Rejects, Unparsable, Parsed(JsonNull), Parsed(JsonNum(1)),
     Parsed(JsonArr(<<BareItem>>)), Parsed(JsonArr(<<FullItem, JsonNull>>))}
    \cup {Parsed(JsonArr([i \in 1..n |-> FullItem])) : n \in 0..MaxRecs}

\* context documents an editContext signal may carry in this part
EditedContexts ==
    {[summary |-> <<"edited">>, facts |-> << <<"f">> >>, constraints |-> << <<"c">> >>,
      priorities |-> << <<"p">> >>, assumptions |-> <<>>, uncertainties |-> << <<"u">> >>],
     [summary |-> <<"edited">>, facts |-> << <<"f">> >>, constraints |-> <<>>,
      priorities |-> <<>>, assumptions |-> <<>>, uncertainties |-> <<>>]}

\* how the completion of an activity attempt ended
ReplyClass(reply, catches) ==
    IF reply.kind # "json" THEN reply.kind ELSE IF catches THEN "invalid" ELSE "ok"

NoActivity == [pc |-> "idle", activity |-> "none", reply |-> "none", caught |-> FALSE]

\* the workflow has left the interview loop and calls synthesizeContext
ActivityInit ==
    /\ variant \in Variants
    /\ pc = "synthesizeContext"
    /\ phase = "synthesize"
    /\ exchanges \in Transcripts
    /\ introduction = Undefined
    /\ currentQuestion = Undefined
    /\ contextDocument = Undefined
    /\ recommendations = Undefined
    /\ userResponse = "a"
    /\ awaitingResponse = FALSE
    /\ question = Undefined
    /\ interviewComplete = TRUE
    /\ questionCount = Len(exchanges)
    /\ procAnswer = Undefined
    /\ recDoc = Undefined
    /\ gatePayload = Undefined
    /\ error = "none"
    /\ altSent = 0
    /\ attempts = 0
    /\ synthEdit = Undefined
    /\ ClientIdle
    /\ domain = <<"d">>
    /\ objective = <<"d">>
    /\ queryResult = NoQuery
    /\ stored = createSession(SessionId, "general", 0)
    /\ req = <<>>
    /\ overlap = FALSE
    /\ clock = 0
    /\ call = NoActivity

\* const contextDoc = await synthesizeContext({...}) returns within the
\* attempt; state.contextDocument = contextDoc; state.awaitingResponse = true
SynthesizeContextReturns(reply) ==
    /\ pc = "synthesizeContext"
    /\ contextDocument' = synthesizeContext([domain |-> domain, objective |-> objective,
                                             exchanges |-> exchanges], reply)
    /\ awaitingResponse' = TRUE
    /\ gatePayload' = Undefined
    /\ pc' = "reviewWait"
    /\ attempts' = 0
    /\ queryResult' = NoQuery
    /\ call' = [pc |-> "returned", activity |-> "synthesizeContext",
                reply |-> ReplyClass(reply, synthesizeContextCatches(reply)),
                caught |-> synthesizeContextCatches(reply)]
    /\ UNCHANGED <<variant, phase, exchanges, introduction, currentQuestion,
                   recommendations, userResponse, question, interviewComplete,
                   questionCount, procAnswer, recDoc, error, altSent, params,
                   stored, req, overlap, clock, auxVars>>

\* const recommendations = await generateRecommendations({...}) returns within
\* the attempt; state.recommendations = recommendations; phase = 'complete'
GenerateRecommendationsReturns(reply) ==
    /\ pc = "generateRecommendations"
    /\ recommendations' = generateRecommendations([contextDocument |-> recDoc,
                                                   objective |-> objective], reply)
    /\ phase' = "complete"
    /\ pc' = "done"
    /\ attempts' = 0
    /\ queryResult' = NoQuery
    /\ call' = [pc |-> "returned", activity |-> "generateRecommendations",
                reply |-> ReplyClass(reply, generateRecommendationsCatches(reply)),
                caught |-> generateRecommendationsCatches(reply)]
    /\ UNCHANGED <<variant, exchanges, introduction, currentQuestion, contextDocument,
                   userResponse, awaitingResponse, question, interviewComplete,
                   questionCount, procAnswer, recDoc, gatePayload, error, altSent, params,
                   stored, req, overlap, clock, auxVars>>

\* the completion call of the attempt in flight runs into runClaude's
\* five-minute timeout, which is also the attempt's startToCloseTimeout: the
\* attempt is failed before the catch block returns its fallback, and the
\* retry policy allows maximumAttempts attempts
CompletionTimesOut ==
    /\ pc \in {"synthesizeContext", "generateRecommendations"}
    /\ attempts < maximumAttempts
    /\ attempts' = attempts + 1
    /\ IF attempts + 1 = maximumAttempts
       THEN pc' = "failed" /\ error' = "activity"
       ELSE UNCHANGED <<pc, error>>
    /\ queryResult' = NoQuery
    /\ call' = [pc |-> "timedOut", activity |-> pc, reply |-> "timeout", caught |-> FALSE]
    /\ UNCHANGED <<variant, phase, exchanges, introduction, currentQuestion,
                   contextDocument, recommendations, userResponse, awaitingResponse,
                   question, interviewComplete, questionCount, procAnswer, recDoc,
                   gatePayload, altSent, params, stored, req, overlap, clock, auxVars>>

NextActivities ==
    \/ \E reply \in SynthesisReplies : SynthesizeContextReturns(reply)
    \/ \E reply \in RecommendationReplies : GenerateRecommendationsReturns(reply)
    \/ CompletionTimesOut
    \/ RespondSignal("a")
    \/ \E editedContext \in EditedContexts : EditContextSignal(editedContext)
    \/ ReviewResume
    \/ Timeout

ActivitySpecInit == ActivityInit /\ StoreIdle /\ PersistIdle
ActivitySpec == ActivitySpecInit /\ [][NextActivities]_vars


(***************************************************************************)
(* Part VI: getTemporalClient and its cached connection promise.  A        *)
(* promise is named by the number of the connection attempt that made it.  *)
(***************************************************************************)
MaxConnects == 3
MaxCalls == 4

Pending == [state |-> "pending", cleanup |-> "none"]
\* const client = await getTemporalClient(): the caller waits for the promise
Awaiting(promise) == [promise |-> promise, got |-> "waiting"]

ClientInit ==
    /\ stored = createSession(SessionId, "general", 0)
    /\ req = <<>>
    /\ call = IdleCall
    /\ overlap = FALSE
    /\ clock = 0

\* getTemporalClient(): up to the first await everything runs in one turn
GetTemporalClient ==
    /\ Len(handed) < MaxCalls
    /\ IF clientPromise = NoPromise
       THEN /\ Len(connections) < MaxConnects
            /\ connections' = Append(connections, Pending)
            /\ clientPromise' = Len(connections) + 1
       ELSE UNCHANGED <<connections, clientPromise>>
    /\ handed' = Append(handed, Awaiting(clientPromise'))
    /\ UNCHANGED <<wfVars, stored, req, call, overlap, clock, storeVars, persistVars, histVars>>

\* await Connection.connect(...) resolves and the async function returns the client
ConnectResolves(a) ==
    /\ a \in DOMAIN connections
    /\ connections[a].state = "pending"
    /\ connections' = [connections EXCEPT ![a].state = "connected"]
    /\ UNCHANGED <<wfVars, stored, req, call, overlap, clock, storeVars, persistVars,
                   histVars, clientPromise, handed>>

\* getTemporalConfig or Connection.connect throws: pending is rejected and
\* the callback of pending.catch is queued
ConnectRejects(a) ==
    /\ a \in DOMAIN connections
    /\ connections[a].state = "pending"
    /\ connections' = [connections EXCEPT ![a] = [state |-> "failed", cleanup |-> "queued"]]
    /\ UNCHANGED <<wfVars, stored, req, call, overlap, clock, storeVars, persistVars,
                   histVars, clientPromise, handed>>

\* a callback of pending.catch that leaves the cached promise alone
CleanupRunsKeepsPromise(a) ==
    /\ a \in DOMAIN connections
    /\ connections[a].cleanup = "queued"
    /\ connections' = [connections EXCEPT ![a].cleanup = "ran"]
    /\ UNCHANGED <<wfVars, stored, req, call, overlap, clock, storeVars, persistVars,
                   histVars, clientPromise, handed>>

\* the callback of pending.catch runs: if (clientPromise === pending) clientPromise = null
CleanupRuns(a) ==
    /\ a \in DOMAIN connections
    /\ connections[a].cleanup = "queued"
    /\ connections' = [connections EXCEPT ![a].cleanup = "ran"]
    /\ clientPromise' = IF clientPromise = a THEN NoPromise ELSE clientPromise
    /\ UNCHANGED <<wfVars, stored, req, call, overlap, clock, storeVars, persistVars,
                   histVars, handed>>

\* the promise a caller awaits has settled: the caller goes on with the
\* client, or with the error of the attempt
CallerResumes(i) ==
    /\ i \in DOMAIN handed
    /\ handed[i].got = "waiting"
    /\ connections[handed[i].promise].state # "pending"
    /\ handed' = [handed EXCEPT ![i].got =
                     IF connections[handed[i].promise].state = "connected"
                     THEN "client" ELSE "error"]
    /\ UNCHANGED <<wfVars, stored, req, call, overlap, clock, storeVars, persistVars,
                   histVars, clientPromise, connections>>

NextClient ==
    \/ GetTemporalClient
    \/ \E i \in 1..MaxCalls : CallerResumes(i)
    \/ \E a \in 1..MaxConnects : ConnectResolves(a)
    \/ \E a \in 1..MaxConnects : ConnectRejects(a)
    \/ \E a \in 1..MaxConnects : CleanupRuns(a)

ClientSpecInit == WorkflowIdle /\ StoreIdle /\ PersistIdle /\ ClientInit
ClientSpec == ClientSpecInit /\ [][NextClient]_vars


(***************************************************************************)
(* Properties of the phase machine.                                        *)
(***************************************************************************)
\* the position of phase p in the line-up of variant v
PhaseIndex(v, p) == CHOOSE i \in 1..Len(Phases(v)) : Phases(v)[i] = p

\* any step of the workflow function itself (it leaves the await it was at)
Advances == pc' # pc
RespondDelivered == \E response \in Payloads : RespondSignal(response)
EditDelivered == \E editedContext \in EditDocs : EditContextSignal(editedContext)

\* C1: phase only ever moves one step forward along
\* prime -> [introduce] -> interview -> synthesize -> recommend -> complete;
\* no step skips a phase and none returns to an earlier one.
C1_PhaseOneStepForward ==
    [][\/ phase' = phase
       \/ PhaseIndex(variant, phase') = PhaseIndex(variant, phase) + 1]_vars

C1_Witness ==
    /\ variant = 5
    /\ phase = "complete"
    /\ Len(exchanges) >= 2
    /\ contextDocument = "e1"

\* C2: a respond signal delivered while awaitingResponse is false changes
\* neither phase nor exchanges, and no answer recorded in exchanges, then or
\* later, is that signal's payload: every answer appended is the payload of
\* the signal that cleared the gate.
C2_LateRespondNotConsumed ==
    [][/\ (RespondDelivered /\ ~awaitingResponse)
            => (phase' = phase /\ exchanges' = exchanges)
       /\ (exchanges' # exchanges)
            => exchanges'[Len(exchanges')].answer = gatePayload]_vars

\* C5: when the completion check never returns complete=true, the interview
\* loop ends after exactly maxQuestions exchanges of its own, phase becomes
\* synthesize, and no question is generated or awaited once the loop is left.
C5_LoopStopsAtCap ==
    /\ questionCount <= maxQuestions
    /\ (phase = "interview" /\ ~interviewComplete /\ questionCount = maxQuestions)
          => FALSE
    /\ (phase \in {"synthesize", "recommend", "complete"})
          => /\ pc \notin {"generateQuestion", "interviewWait", "processResponse"}
             /\ ~interviewComplete
                  => /\ questionCount = maxQuestions
                     /\ Len(exchanges) = maxQuestions + (IF variant = 5 THEN 1 ELSE 0)

C5_Witness ==
    /\ phase = "synthesize"
    /\ pc = "synthesizeContext"
    /\ ~interviewComplete
    /\ questionCount = maxQuestions

\* C6: when the 24-hour timer of a wait fires while awaitingResponse is still
\* true, the workflow fails with the timeout error; phase, exchanges and
\* recommendations keep their values (recommendations unset), and a failed
\* workflow changes nothing afterwards.
C6_TimeoutIsFatal ==
    [][/\ (pc \in WaitPcs /\ awaitingResponse /\ Advances)
            => /\ pc' = "failed"
               /\ error' = "timeout"
               /\ recommendations = Undefined
               /\ UNCHANGED <<phase, exchanges, recommendations>>
       /\ (pc = "failed") => UNCHANGED wfVars]_vars

C6_Witness ==
    /\ pc = "failed"
    /\ error = "timeout"
    /\ phase = "interview"
    /\ Len(exchanges) >= 1

\* C7: when a respond signal with an empty payload has cleared the gate of the
\* introduce wait or of an interview-loop wait, the workflow's next step is
\* to fail with the empty-response error, with phase and exchanges unchanged
\* and no processResponse call made.
C7_EmptyResponseIsFatal ==
    [][(pc \in {"introduceWait", "interviewWait"} /\ ~awaitingResponse
           /\ gatePayload = "" /\ Advances)
          => /\ pc' = "failed"
             /\ error' = "empty"
             /\ UNCHANGED <<phase, exchanges>>]_vars

\* C8: an editContext signal delivered while phase is not synthesize changes
\* contextDocument only; a workflow blocked in a wait stays blocked.
C8_EditContextOutsideSynthesize ==
    [][(EditDelivered /\ phase # "synthesize")
          => UNCHANGED <<awaitingResponse, userResponse, phase, exchanges,
                         recommendations, pc, error>>]_vars

C8_Witness ==
    /\ pc = "interviewWait"
    /\ awaitingResponse
    /\ contextDocument = "e1"

\* C9: in the synthesize review wait a respond signal with any payload, or an
\* editContext signal, clears the gate; the workflow's next step is then to
\* advance to recommend with the document as it stands; the respond payload is
\* not appended to exchanges and an editContext payload becomes contextDocument.
C9_ReviewUnblockedByEitherSignal ==
    [][/\ (pc = "reviewWait" /\ (RespondDelivered \/ EditDelivered))
            => (~awaitingResponse' /\ exchanges' = exchanges /\ pc' = pc)
       /\ \A d \in EditDocs :
            (pc = "reviewWait" /\ EditContextSignal(d)) => contextDocument' = d
       /\ (pc = "reviewWait" /\ ~awaitingResponse /\ Advances)
            => /\ phase' = "recommend"
               /\ pc' = "generateRecommendations"
               /\ recDoc' = contextDocument
               /\ exchanges' = exchanges]_vars

C9_Witness ==
    /\ phase = "recommend"
    /\ gatePayload = ""
    /\ userResponse = ""

C9_WitnessEdit ==
    /\ phase = "recommend"
    /\ gatePayload = Undefined
    /\ recDoc = "e1"

QueryServed == queryResult' # NoQuery /\ queryResult' # queryResult

\* C17: the getState query and both signal handlers are served from the
\* start, the priming call included, until the workflow returns; a getState
\* reply is exactly the current phase, exchanges, contextDocument,
\* recommendations, userResponse and awaitingResponse, and serving it changes
\* none of them.
C17_GetStateReturnsLiveState ==
    /\ [](Running => /\ ENABLED GetStateQuery
                     /\ ENABLED RespondSignal("a")
                     /\ ENABLED EditContextSignal("e1"))
    /\ [][QueryServed
            => /\ queryResult'.phase = phase'
               /\ queryResult'.exchanges = exchanges'
               /\ queryResult'.contextDocument = contextDocument'
               /\ queryResult'.recommendations = recommendations'
               /\ queryResult'.userResponse = userResponse'
               /\ queryResult'.awaitingResponse = awaitingResponse'
               /\ UNCHANGED <<phase, exchanges, contextDocument, recommendations,
                              userResponse, awaitingResponse, pc>>]_vars

C17_Witness ==
    /\ queryResult # NoQuery
    /\ queryResult.phase = "synthesize"
    /\ queryResult.contextDocument = "e1"
    /\ Len(queryResult.exchanges) >= 2
    /\ queryResult.userResponse = "b"

C17_WitnessPrime ==
    /\ pc = "primeInterview"
    /\ queryResult # NoQuery
    /\ queryResult.userResponse = "a"

\* C18: the transcript is append-only: every step leaves exchanges as it was
\* or appends exactly one entry at its end.
C18_TranscriptAppendOnly ==
    [][\/ exchanges' = exchanges
       \/ /\ Len(exchanges') = Len(exchanges) + 1
          /\ SubSeq(exchanges', 1, Len(exchanges)) = exchanges]_vars

C18_Witness ==
    /\ Len(exchanges) >= 3
    /\ exchanges[1].answer # exchanges[2].answer
    /\ pc = "failed"
    /\ error = "timeout"

\* C19 (as stated): in both forms exchanges never holds more than 20 entries.
C19_AtMostTwentyExchanges == Len(exchanges) <= maxQuestions

\* C19 (amended): the interview loop appends at most 20 exchanges whatever
\* the completion check returns; exchanges holds at most 20 entries in the
\* 4-phase form and at most 21 in the 5-phase form, whose introduce phase
\* appends one more entry before the loop.
C19_LoopAppendsAtMostTwenty ==
    /\ questionCount <= maxQuestions
    /\ Len(exchanges) = questionCount + (IF variant = 5 /\ phase # "prime" /\ phase # "introduce"
                                          THEN 1 ELSE 0)

C19_Witness ==
    /\ variant = 5
    /\ Len(exchanges) = maxQuestions + 1
    /\ phase = "complete"

\* a text that is empty or whitespace only
IsBlank(t) == \A i \in 1..Len(t) : t[i] = " "

\* C20: with a blank domain or objective the priming call fails and the
\* workflow ends with phase prime, exchanges empty and awaitingResponse false;
\* when priming succeeds the step changes phase and nothing else of the state.
C20_BlankPrimeIsFatal ==
    /\ []((IsBlank(domain) \/ IsBlank(objective))
            => /\ phase = "prime"
               /\ exchanges = <<>>
               /\ ~awaitingResponse
               /\ pc \in {"primeInterview", "failed"})
    /\ [][(pc = "primeInterview" /\ Advances /\ pc' # "failed")
            => /\ ~IsBlank(domain) /\ ~IsBlank(objective)
               /\ phase' # phase
               /\ UNCHANGED <<domain, objective, exchanges, introduction,
                              currentQuestion, contextDocument, recommendations,
                              userResponse, awaitingResponse>>]_vars

C20_Witness ==
    /\ IsBlank(objective)
    /\ objective # <<>>
    /\ ~IsBlank(domain)
    /\ pc = "failed"
    /\ error = "activity"
    /\ userResponse = "a"

C20_WitnessPrimed ==
    /\ pc = "generateQuestion"
    /\ phase = "interview"
    /\ exchanges = <<>>
    /\ contextDocument = "e1"

\* C21: every activity call is attempted at most maximumAttempts = 3 times;
\* when the last attempt fails the workflow fails with the activity error,
\* phase keeps the value it had when the call was made, and a failed workflow
\* enters no later phase.
C21_RetriesExhaustedIsFatal ==
    /\ [](attempts <= maximumAttempts)
    /\ [](pc \in ActivityPcs => attempts < maximumAttempts)
    /\ []((pc = "failed" /\ error = "activity") => attempts = maximumAttempts)
    /\ [][(pc \in ActivityPcs /\ attempts' > attempts /\ attempts' = maximumAttempts)
            => /\ pc' = "failed"
               /\ error' = "activity"
               /\ UNCHANGED <<phase, exchanges, recommendations>>]_vars
    /\ [][(pc \in ActivityPcs /\ pc' \notin {pc, "failed"}) => attempts < maximumAttempts]_vars
    /\ [][pc = "failed" => (pc' = "failed" /\ phase' = phase)]_vars

C21_Witness ==
    /\ pc = "failed"
    /\ error = "activity"
    /\ attempts = maximumAttempts
    /\ phase = "synthesize"
    /\ Len(exchanges) >= 1

C21_WitnessRetried ==
    /\ variant = 5
    /\ pc = "processResponse"
    /\ attempts = maximumAttempts - 1

\* C22: in the recommend phase the workflow is at the recommendation call and
\* at no wait; when the call returns, its result is stored in recommendations
\* and phase becomes complete in the same step, whatever the gate holds; the
\* state the workflow returns has phase complete, recommendations set and
\* awaitingResponse false.
C22_RecommendCompletesWithoutWaiting ==
    /\ [](phase = "recommend" => pc \in {"generateRecommendations", "failed"})
    /\ [](pc = "generateRecommendations"
            => (phase = "recommend" /\ ENABLED RecommendationsGenerated))
    /\ [][(pc = "generateRecommendations" /\ Advances /\ pc' # "failed")
            => /\ recommendations' = RecommendationsFor(recDoc)
               /\ phase' = "complete"
               /\ pc' = "done"]_vars
    /\ [](pc = "done" => /\ LiveState.phase = "complete"
                         /\ LiveState.recommendations # Undefined
                         /\ ~LiveState.awaitingResponse)
    /\ [](phase = "complete" <=> pc = "done")

C22_Witness ==
    /\ pc = "done"
    /\ phase = "complete"
    /\ recommendations = RecommendationsFor("e1")
    /\ userResponse = "b"
    /\ Len(exchanges) >= 2


(***************************************************************************)
(* Properties of the step-based engine.                                    *)
(***************************************************************************)
\* the question the session handed to the call in progress is at
CallQuestion == QuestionAt(getInterviewType(call.session.interviewType),
                           call.session.currentStep)
CallReturns == call.pc = "loaded" /\ call'.pc # "loaded"
EmptyValue(v) == v \in {Str(""), Null, Undef}

C10_FailureLeavesSessionUnchanged ==
    [][/\ (call.pc = "loaded" /\ call'.pc = "rejected")
            => /\ call'.session = call.session
               /\ ~call'.result.success
               /\ call'.result.updates = NoUpdates
               /\ stored' = stored
       /\ (CallReturns /\ \/ CallQuestion = NoQuestion
                          \/ (CallQuestion.required /\ EmptyValue(call.response))
                          \/ (CallQuestion.type = "scale" /\ call.response = Str("a")))
            => call'.pc = "rejected"
       /\ (stored'.currentStep # stored.currentStep
              \/ stored'.responses # stored.responses)
            => (call.pc = "processed" /\ call.result.success)]_vars

C10_Witness ==
    /\ call.pc = "rejected"
    /\ call.response = Null
    /\ call.session.currentStep = 2
    /\ call.result.error = "Response is required for this question"

C10_WitnessNoQuestion ==
    /\ call.pc = "rejected"
    /\ call.session.currentStep = 5
    /\ call.result.error = "No current question found"

MaxStepsOf(session) == getInterviewType(session.interviewType).maxSteps
QuestionsOf(session) == getInterviewType(session.interviewType).questions
RequiredAnswered(session) ==
    \A i \in 1..Len(QuestionsOf(session)) :
        QuestionsOf(session)[i].required
            => QuestionsOf(session)[i].id \in DOMAIN session.responses
ResponseCount(session) == Cardinality(DOMAIN session.responses)

\* C11: for each of the four archetypes checkCompletion(session) is true
\* exactly when currentStep >= maxSteps, whatever responses holds, and
\* processResponse reports completed exactly on the answer that moves
\* currentStep to maxSteps.
C11_CompletedIffStepLimit ==
    /\ (call.pc = "checked")
          => (call.result.completed <=> call.session.currentStep >= MaxStepsOf(call.session))
    /\ (call.pc = "processed")
          => (call.result.completed
                <=> call.result.updates.currentStep = MaxStepsOf(call.session))

C11_Witness ==
    /\ call.pc = "checked"
    /\ ~call.result.completed
    /\ call.session.interviewType = "maintenance-request"
    /\ call.session.currentStep = 6
    /\ RequiredAnswered(call.session)

C11_WitnessNoResponses ==
    /\ call.pc = "checked"
    /\ call.result.completed
    /\ call.session.currentStep = MaxStepsOf(call.session)
    /\ ResponseCount(call.session) = 0

\* the persist step of an accepted empty answer to an optional question
OptionalEmptyPersisted ==
    /\ call.pc = "processed"
    /\ call'.pc = "persisted"
    /\ ~CallQuestion.required
    /\ EmptyValue(call.response)

\* C12 (as stated): an optional question answered with an empty value
\* advances the step and adds no entry to responses (a general session ends
\* with 4 entries, a maintenance-request session with 6).
C12_OptionalEmptyLeftUnanswered ==
    [][OptionalEmptyPersisted
          => /\ stored'.currentStep = stored.currentStep + 1
             /\ CallQuestion.id \notin DOMAIN stored'.responses
             /\ ResponseCount(stored') = ResponseCount(stored)]_vars

\* C12 (amended): an optional question answered with an empty value advances
\* the step and records an entry holding that value under the question's id;
\* the session ends completed at currentStep = maxSteps with maxSteps entries
\* (5 for general, 7 for maintenance-request), and before that answer it is
\* not completed.
C12_OptionalEmptyIsRecorded ==
    [][OptionalEmptyPersisted
          => /\ stored.status # "completed"
             /\ stored'.currentStep = stored.currentStep + 1
             /\ CallQuestion.id \in DOMAIN stored'.responses
             /\ stored'.responses[CallQuestion.id].response = call.response
             /\ stored'.status = "completed"
             /\ stored'.currentStep = MaxStepsOf(stored)
             /\ ResponseCount(stored') = MaxStepsOf(stored)]_vars

C12_Witness ==
    /\ call.pc = "analyzed"
    /\ stored.interviewType = "maintenance-request"
    /\ stored.responses["photos_description"].response = Str("")
    /\ call.analysis.responseCount = 7

C12_WitnessGeneral ==
    /\ stored.interviewType = "general"
    /\ stored.status = "completed"
    /\ stored.currentStep = 5
    /\ "additional" \in DOMAIN stored.responses
    /\ stored.responses["additional"].response = Str("")

\* C13: pauseSession and resumeSession on a completed session throw the
\* invalid-transition error and leave the stored session unchanged; under a
\* sequential caller a completed session never becomes paused or active again.
C13_CompletedIsTerminal ==
    /\ [][stored.status = "completed" => stored'.status = "completed"]_vars
    /\ [][\A target \in {"paused", "active"} :
            (stored.status = "completed" /\ EngineLifecycle(target))
               => /\ stored' = stored
                  /\ call'.pc = "threw"
                  /\ call'.thrown = "invalid transition"]_vars

C13_Witness ==
    /\ stored.status = "completed"
    /\ call.pc = "threw"
    /\ call.thrown = "invalid transition"

\* C14: completedAt is unset until the first updateSession that makes status
\* completed, that update sets it, and no later updateSession, whatever
\* partial fields it carries, changes or clears it.
C14_CompletedAtSetOnce ==
    /\ [][(stored.completedAt = NoDate /\ stored'.completedAt # NoDate)
            => stored'.status = "completed"]_vars
    /\ [][(stored.status # "completed" /\ stored'.status = "completed")
            => stored'.completedAt # NoDate]_vars
    /\ [][stored.completedAt # NoDate => stored'.completedAt = stored.completedAt]_vars

\* C15: for every archetype the round trip of getNextQuestion, a
\* type-appropriate answer, processResponse and updateSession reaches status
\* completed after exactly maxSteps answers, and generateAnalysis on the
\* result yields responseCount = maxSteps and completionRate = 1.
C15_RoundTrip ==
    /\ stored.currentStep <= MaxStepsOf(stored)
    /\ stored.status = "completed" <=> stored.currentStep = MaxStepsOf(stored)
    /\ ResponseCount(stored) = stored.currentStep
    /\ call.pc = "analyzed"
          => /\ call.analysis.responseCount = MaxStepsOf(stored)
             /\ call.analysis.completionRate = 1

C15_Witness ==
    /\ call.pc = "analyzed"
    /\ stored.interviewType = "customer-onboarding"
    /\ \A i \in 1..Len(QuestionsOf(stored)) :
          stored.responses[QuestionsOf(stored)[i].id].response
              = ValidAnswer(QuestionsOf(stored)[i])
    /\ call.analysis.responseCount = 6

\* C16: getNextQuestion returns null exactly when currentStep >= maxSteps and
\* otherwise questions[currentStep]; it leaves the session as it was, and a
\* second call on the same session returns the same question.
C16_NextQuestionAtCursor ==
    /\ [](call.pc \in {"asked", "askedAgain"}
            => /\ call.result.nextQuestion = NoQuestion
                    <=> call.session.currentStep >= MaxStepsOf(call.session)
               /\ call.session.currentStep < MaxStepsOf(call.session)
                    => call.result.nextQuestion
                         = QuestionsOf(call.session)[call.session.currentStep + 1])
    /\ [][call'.pc \in {"asked", "askedAgain"} => call'.session = call.session]_vars
    /\ [][(call.pc \in {"asked", "askedAgain"} /\ call'.pc = "askedAgain")
            => call'.result.nextQuestion = call.result.nextQuestion]_vars

C16_Witness ==
    /\ call.pc = "askedAgain"
    /\ call.session.interviewType = "tenant-screening"
    /\ call.result.nextQuestion.id = "employment_status"

C16_WitnessNull ==
    /\ call.pc = "askedAgain"
    /\ call.session.currentStep = MaxStepsOf(call.session)
    /\ call.result.nextQuestion = NoQuestion

\* C23: every session a sequential caller reaches from createSession by
\* respond steps (processResponse on the loaded session, then updateSession
\* with the returned updates), pauseSession and resumeSession has
\* 0 <= currentStep <= maxSteps, and is completed whenever currentStep = maxSteps.
C23_CursorWithinBounds ==
    /\ stored.currentStep \in 0..MaxStepsOf(stored)
    /\ stored.currentStep = MaxStepsOf(stored) => stored.status = "completed"

C23_Witness ==
    /\ call.pc = "persisted"
    /\ call.session.status = "paused"
    /\ stored.interviewType = "tenant-screening"
    /\ stored.currentStep = MaxStepsOf(stored)
    /\ stored.status = "completed"

\* C24: createSession with a resolvable interview type stores and returns a
\* session with status active, currentStep 0, empty responses, no completedAt
\* and an id that no session created before has; with an unresolvable type
\* it throws and storage is unchanged.
C24_CreateSession ==
    [][\A userId \in UserIds, interviewType \in RequestedTypes :
          StoreCreate(userId, interviewType)
             => IF interviewType \in DOMAIN INTERVIEW_TYPES
                THEN /\ ret'.thrown = "none"
                     /\ ret'.session.status = "active"
                     /\ ret'.session.currentStep = 0
                     /\ ret'.session.responses = NoUpdates
                     /\ ret'.session.completedAt = NoDate
                     /\ ret'.session.userId = userId
                     /\ ret'.session.interviewType = interviewType
                     /\ ret'.session.id \notin 1..store.issued
                     /\ \A i \in 1..Len(store.rows) : store.rows[i].id # ret'.session.id
                     /\ StorageLoad(store'.rows, ret'.session.id) = ret'.session
                     /\ Len(store'.rows) = Len(store.rows) + 1
                     /\ SubSeq(store'.rows, 1, Len(store.rows)) = store.rows
                ELSE /\ ret'.thrown = "Invalid interview type"
                     /\ store' = store]_vars

C24_Witness ==
    /\ ret.op = "createSession"
    /\ ret.thrown = "none"
    /\ ret.session.id = 3
    /\ Len(store.rows) = 2
    /\ store.rows[1].status = "paused"

C24_WitnessInvalid ==
    /\ ret.op = "createSession"
    /\ ret.thrown = "Invalid interview type"
    /\ Len(store.rows) = 2

\* the session stored under this id, NoSession when there is none
StoredAs(rows, id) == StorageLoad(rows, id)
\* the id is in no result listSessions may return
NotListed(st, id) ==
    \A result \in StorageList(st.kind, st.rows, NoFilters) :
        \A i \in 1..Len(result) : result[i].id # id

\* C25: updateSession, pauseSession, resumeSession and deleteSession on an
\* id that is not in storage throw session-not-found and leave storage
\* unchanged, while getSession on such an id returns null without throwing;
\* after a successful deleteSession(id), getSession(id) returns null,
\* listSessions does not contain the session, and every other stored session
\* is unchanged.
C25_NotFoundAndDelete ==
    /\ [][\A id \in SessionIds :
            (StoredAs(store.rows, id) = NoSession
              /\ \/ \E updates \in StoreUpdates : StoreUpdate(id, updates)
                 \/ \E target \in {"paused", "active"} : StoreLifecycle(id, target)
                 \/ StoreDelete(id))
               => /\ ret'.thrown = "Session not found"
                  /\ store' = store]_vars
    /\ [][\A id \in SessionIds :
            StoreGet(id)
               => /\ ret'.thrown = "none"
                  /\ ret'.session = StoredAs(store.rows, id)
                  /\ store' = store]_vars
    /\ [][\A id \in SessionIds :
            (StoredAs(store.rows, id) # NoSession /\ StoreDelete(id))
               => /\ ret'.thrown = "none"
                  /\ StoredAs(store'.rows, id) = NoSession
                  /\ ENABLED StoreGet(id)
                  /\ NotListed(store', id)
                  /\ \A other \in SessionIds \ {id} :
                        StoredAs(store'.rows, other) = StoredAs(store.rows, other)
                  /\ Len(store'.rows) = Len(store.rows) - 1]_vars

C25_Witness ==
    /\ ret.op = "deleteSession"
    /\ ret.thrown = "none"
    /\ ret.id = 2
    /\ Len(store.rows) = 2
    /\ store.rows[1].status = "completed"
    /\ store.rows[2].id = 3

C25_WitnessNotFound ==
    /\ ret.op = "pauseSession"
    /\ ret.thrown = "Session not found"
    /\ ret.id = 1
    /\ Len(store.rows) = 1

C25_WitnessGetNull ==
    /\ ret.op = "getSession"
    /\ ret.session = NoSession
    /\ ret.id = 1
    /\ store.issued = 2

\* C26 as stated: generateAnalysis throws for every session whose status is
\* active or paused, whatever its responses and currentStep, and returns a
\* result with completionRate 1 and responseCount equal to the number of
\* entries of responses for every session whose status is completed.
C26_EveryCompletedSessionAnalysed ==
    call.pc \in {"threw", "analyzed"}
       => IF call.session.status \in {"active", "paused"}
          THEN /\ call.pc = "threw"
               /\ call.thrown = "Cannot analyze incomplete session"
          ELSE /\ call.pc = "analyzed"
               /\ call.analysis.completionRate = 1
               /\ call.analysis.responseCount = ResponseCount(call.session)

\* C26 amended: generateAnalysis throws 'Cannot analyze incomplete session'
\* for every session whose status is active or paused, whatever its
\* responses and currentStep; for a completed session it returns a result
\* with completionRate 1 and responseCount equal to the number of entries of
\* responses unless the answer its insights read is not of the kind the
\* engine stores (null under rental_history or goals, not a string under
\* welcome), in which case it ends in a TypeError.
C26_AnalysisNeedsCompleted ==
    call.pc \in {"threw", "analyzed"}
       => IF call.session.status \in {"active", "paused"}
          THEN /\ call.pc = "threw"
               /\ call.thrown = "Cannot analyze incomplete session"
               /\ call.analysis = NoAnalysis
          ELSE IF extractInsightsThrows(call.session)
          THEN /\ call.pc = "threw"
               /\ call.thrown = "TypeError"
          ELSE /\ call.session.status = "completed"
               /\ call.pc = "analyzed"
               /\ call.analysis.completionRate = 1
               /\ call.analysis.responseCount = ResponseCount(call.session)

C26_Witness ==
    /\ call.pc = "threw"
    /\ call.thrown = "Cannot analyze incomplete session"
    /\ call.session.status = "active"
    /\ call.session.interviewType = "maintenance-request"
    /\ call.session.currentStep = MaxStepsOf(call.session)
    /\ ResponseCount(call.session) = MaxStepsOf(call.session)
    /\ call.session.completedAt # NoDate

C26_WitnessCompleted ==
    /\ call.pc = "analyzed"
    /\ call.session.status = "completed"
    /\ call.session.interviewType = "general"
    /\ call.analysis.responseCount = 3
    /\ call.session.completedAt = NoDate

C26_WitnessTypeError ==
    /\ call.pc = "threw"
    /\ call.thrown = "TypeError"
    /\ call.session.status = "completed"
    /\ call.session.interviewType = "tenant-screening"
    /\ ResponseCount(call.session) = MaxStepsOf(call.session)

\* C26, the sessions the engine completes: the answers the insights read
\* are strings, so the analysis of a stored completed session never ends
\* in a TypeError
C26_EngineSessionsAnalysable ==
    ~extractInsightsThrows(stored) /\ call.thrown # "TypeError"

\* C27: for every archetype, completionPercentage is the percentage of
\* currentStep in maxSteps rounded to the nearest integer and capped at 100:
\* it is 0 at currentStep 0, 100 for every currentStep >= maxSteps, and no
\* smaller currentStep of the same session gives a larger percentage.
C27_ProgressMonotoneAndCapped ==
    call.pc = "progress"
       => LET session == call.session
              pct == call.analysis.completionPercentage
              maxSteps == MaxStepsOf(session)
          IN  /\ pct \in 0..100
              /\ call.analysis.totalSteps = maxSteps
              /\ session.currentStep = 0 => pct = 0
              /\ session.currentStep >= maxSteps => pct = 100
              /\ session.currentStep < maxSteps
                   => /\ 2 * maxSteps * pct <= 200 * session.currentStep + maxSteps
                      /\ 200 * session.currentStep + maxSteps < 2 * maxSteps * (pct + 1)
              /\ \A lower \in 0..session.currentStep :
                    getProgress([session EXCEPT !.currentStep = lower]).completionPercentage
                        <= pct

\* C27, the one session getProgress gives no percentage for: its type is
\* not a registered archetype
C27_ThrowsOnlyForUnknownType ==
    call.pc = "progressThrew" <=> 
        /\ call.thrown = "Invalid interview type"
        /\ call.session.interviewType = UnknownType

C27_Witness ==
    /\ call.pc = "progress"
    /\ call.session.interviewType = "tenant-screening"
    /\ call.session.currentStep = 1
    /\ call.analysis.completionPercentage = 13

C27_WitnessPastEnd ==
    /\ call.pc = "progress"
    /\ call.session.currentStep > MaxStepsOf(call.session)
    /\ call.analysis.completionPercentage = 100

\* the slice [o, o + l) of a list: o is 0 without an offset, and without a
\* limit the slice runs to the end
SliceOf(list, filters) ==
    LET o == IF Has(filters, "offset") THEN filters.offset ELSE 0
        from == SliceFrom(list, o)
    IN  IF Has(filters, "limit") THEN SliceTo(from, filters.limit) ELSE from

\* the filters of a call without its offset and limit
Unpaged(filters) ==
    [f \in DOMAIN filters \ {"offset", "limit"} |-> filters[f]]

\* a list holds exactly the rows that match the filters, each once
ExactlyTheMatching(list, rows, filters) ==
    /\ {list[i] : i \in 1..Len(list)} = {rows[i] : i \in 1..Len(rows)} \cap
                                           {s \in {rows[i] : i \in 1..Len(rows)} :
                                                Matches(s, filters)}
    /\ \A i, j \in 1..Len(list) : list[i] = list[j] => i = j

\* C29 as stated: listSessions returns exactly the stored sessions that
\* match every supplied filter (userId, interviewType, status), and a call
\* with offset o and limit l returns the slice [o, o + l) of the list the
\* call with the same filters and no pagination has just returned, in the
\* same order: empty for an offset past the end, everything from the offset
\* on without a limit.
C29_PageIsSliceOfList ==
    /\ [](ret.op = "listSessions" /\ Unpaged(ret.filters) = ret.filters
             => ExactlyTheMatching(ret.list, store.rows, ret.filters))
    /\ [][\A filters \in ListFilters, page \in ListPages :
             ListPage(filters, page) => ret'.list = SliceOf(ret.list, page)]_vars

\* C29, what the code keeps: every call returns stored sessions matching
\* every supplied filter, each once; a page of a MemoryStorage, and a page
\* of a PostgresSessionStorage whose sessions have distinct createdAt, is
\* the slice of the unpaginated list when the limit, if any, is positive
C29_PageIsSliceWithoutTies ==
    /\ [](ret.op = "listSessions"
             => /\ \A i \in 1..Len(ret.list) :
                      /\ Matches(ret.list[i], Unpaged(ret.filters))
                      /\ \E j \in 1..Len(store.rows) : store.rows[j] = ret.list[i]
                /\ \A i, j \in 1..Len(ret.list) : ret.list[i] = ret.list[j] => i = j
                /\ Unpaged(ret.filters) = ret.filters
                      => ExactlyTheMatching(ret.list, store.rows, ret.filters))
    /\ [][\A filters \in ListFilters, page \in ListPages :
             /\ ListPage(filters, page)
             /\ Has(page, "limit") => page.limit > 0
             /\ \/ store.kind = "memory"
                \/ \A i, j \in 1..Len(store.rows) :
                      store.rows[i].createdAt = store.rows[j].createdAt => i = j
             => ret'.list = SliceOf(ret.list, page)]_vars

\* C29 on PostgresSessionStorage alone, with positive limits: a page is the
\* slice of the list returned just before (two sessions created in the same
\* millisecond may change places between the two queries)
C29_PostgresPageIsSlice ==
    [][\A filters \in ListFilters, page \in ListPages :
          /\ ListPage(filters, page)
          /\ store.kind = "postgres"
          /\ Has(page, "limit") => page.limit > 0
          => ret'.list = SliceOf(ret.list, page)]_vars

\* a call with limit 0 that returned everything from the offset on
C29_WitnessLimitZero ==
    /\ store.kind = "memory"
    /\ ret.op = "listSessions"
    /\ ret.filters = [offset |-> 1, limit |-> 0]
    /\ Len(store.rows) = 3
    /\ Len(ret.list) = 2

\* C30 as stated: the snapshot row is updated monotonically: across every
\* interleaving of the background persists, each of which queries getState
\* after a delay and then upserts the row, the stored phase never moves to
\* an earlier phase and the stored exchanges never become shorter.
C30_RowMonotone ==
    [][/\ PhaseIndex(variant, row'.phase) >= PhaseIndex(variant, row.phase)
       /\ Len(row'.exchanges) >= Len(row.exchanges)]_vars

\* C30, what one persist alone keeps: the state it upserts is the one its
\* query read, which the workflow has not fallen behind of since
C30_SavedStateIsNotAhead ==
    \A i \in DOMAIN tasks :
        tasks[i].pc \in {"queried", "done"}
           => /\ PhaseIndex(variant, tasks[i].state.phase) <= PhaseIndex(variant, phase)
              /\ Len(tasks[i].state.exchanges) <= Len(exchanges)

\* a fraction lies between two integers
FracWithin(a, low, high) == low * a.den <= a.num /\ a.num <= high * a.den

\* C28: calculateScore returns an integer in 0..100 for every session of a
\* resolvable archetype, its completeness, quality and time components
\* staying within 0..40, 0..30 and 10..30 (15 when there is no elapsed
\* time) for every number of responses and every elapsed time, and returns
\* 0 when the interview type is unresolvable.
C28_ScoreWithinRange ==
    call.pc = "scored"
       => LET session == call.session
              def == getInterviewType(session.interviewType)
          IN  IF def = NoType THEN call.analysis.score = 0
              ELSE /\ call.analysis.score \in 0..100
                   /\ FracWithin(completenessScore(session, def), 0, 40)
                   /\ FracWithin(calculateQualityScore(session), 0, 30)
                   /\ FracWithin(calculateTimeScore(session), 10, 30)
                   /\ CompletionTime(session) = 0
                        => calculateTimeScore(session) = Frac(15, 1)

C28_Witness ==
    /\ call.pc = "scored"
    /\ call.session.status = "completed"
    /\ call.session.interviewType = "tenant-screening"
    /\ ResponseCount(call.session) = MaxStepsOf(call.session) + 1
    /\ CompletionTime(call.session) = 3600000
    /\ call.analysis.score = 80

C28_WitnessUnknownType ==
    /\ call.pc = "scored"
    /\ call.session.status = "completed"
    /\ call.session.interviewType = UnknownType
    /\ ResponseCount(call.session) = 5
    /\ call.analysis.score = 0

\* every request has been answered
AllDone == \A r \in Requests : req[r].pc = "done"
\* the respond request r was acknowledged with success
Acked(r) == req[r].kind = "respond" /\ req[r].pc = "done" /\ req[r].status = 200
\* the answer of respond request r is in the stored responses, under the
\* question it answered
AnswerStored(r) ==
    LET qid == QuestionAt(getInterviewType(stored.interviewType),
                          req[r].session.currentStep).id
    IN  /\ qid \in DOMAIN stored.responses
        /\ stored.responses[qid].response = req[r].response

\* C4 (as stated): under any interleaving of respond, pause and resume
\* requests, once all have finished every acknowledged respond has its answer
\* in the stored responses, and the stored currentStep never decreases.
C4_NoLostUpdates ==
    /\ [](AllDone => \A r \in Requests : Acked(r) => AnswerStored(r))
    /\ [][stored'.currentStep >= stored.currentStep]_vars

\* C4 (amended): when the requests on a session do not overlap, every
\* acknowledged respond has its answer in the stored responses once all have
\* finished, and the stored currentStep never decreases.
C4_SerialRequestsKeepUpdates ==
    /\ []((~overlap /\ AllDone) => \A r \in Requests : Acked(r) => AnswerStored(r))
    /\ [][~overlap' => stored'.currentStep >= stored.currentStep]_vars

C4_Witness ==
    /\ ~overlap
    /\ AllDone
    /\ \A r \in Requests : Acked(r)
    /\ req[1].response # req[2].response


\* C38: awaitingResponse is true only at the waits for the user:
\* awaitingResponse implies that phase is introduce, interview or
\* synthesize, and it is false whenever phase is prime, recommend or
\* complete and whenever a collaborator call is in flight.
C38_AwaitingOnlyAtWaits ==
    /\ awaitingResponse => phase \in {"introduce", "interview", "synthesize"}
    /\ phase \in {"prime", "recommend", "complete"} => ~awaitingResponse
    /\ pc \in ActivityPcs => ~awaitingResponse
    /\ awaitingResponse /\ pc # "failed" => pc \in WaitPcs

C38_Witness ==
    /\ awaitingResponse
    /\ pc = "reviewWait"
    /\ phase = "synthesize"
    /\ variant = 5
    /\ Len(exchanges) > 1

C38_WitnessCallInFlight ==
    /\ ~awaitingResponse
    /\ pc = "generateQuestion"
    /\ phase = "interview"
    /\ Len(exchanges) > 0

\* C37: every entry of the transcript has a non-empty answer, and it is the
\* answer that was given to the completion check for that question: each
\* entry appended by the loop carries the answer argument of the
\* processResponse call that has just returned, and the introduction entry
\* the response that cleared the introduction's wait.
C37_AnswersNonEmptyAndChecked ==
    /\ [](\A i \in 1..Len(exchanges) : exchanges[i].answer \notin {"", Undefined})
    /\ [][exchanges' # exchanges
            => exchanges'[Len(exchanges')].answer =
                  (IF pc = "processResponse" THEN procAnswer ELSE gatePayload)]_vars

\* C33: a context edit made during the synthesize phase is what the
\* recommendations are built from: once an editContext signal has been
\* delivered while phase = synthesize, the synthesis call still in flight
\* included, the document passed to generateRecommendations is the document
\* of the last such signal, and the review wait needs no further signal.
C33_EditInSynthesizeIsUsed ==
    /\ [](synthEdit # Undefined /\ pc = "reviewWait" => ~awaitingResponse)
    /\ [][(synthEdit # Undefined /\ pc = "reviewWait" /\ pc' = "generateRecommendations")
            => recDoc' = synthEdit]_vars

\* C33, the edits that are used: an editContext signal delivered during the
\* review wait clears the wait, and the workflow's next step passes the
\* contextDocument as the signals have left it to generateRecommendations
C33_EditInReviewWaitIsUsed ==
    [][/\ \A d \in EditDocs :
            (pc = "reviewWait" /\ EditContextSignal(d))
               => contextDocument' = d /\ ~awaitingResponse'
       /\ (pc = "reviewWait" /\ pc' = "generateRecommendations")
            => recDoc' = contextDocument /\ ~awaitingResponse]_vars


\* C34: under any interleaving of concurrent respond, pause and resume
\* requests on one session, once storage holds status completed no later
\* write stores status active or paused.
C34_CompletedTerminalUnderConcurrency ==
    [][stored.status = "completed" => stored'.status = "completed"]_vars

\* C35: a respond request that loads a paused or completed session is
\* rejected without a write, and once storage holds status paused no write
\* made by a respond request stores status active.
C35_RespondNeverReactivates ==
    /\ [][\A r \in Requests :
            (/\ req[r].kind = "respond" /\ req[r].pc = "get" /\ req'[r].pc # "get"
             /\ stored.status \in {"paused", "completed"})
               => /\ req'[r].pc = "done"
                  /\ req'[r].status = 400
                  /\ stored' = stored]_vars
    /\ [][\A r \in Requests :
            (/\ req[r].kind = "respond" /\ req[r].pc = "updateSave" /\ req'[r].pc = "done"
             /\ stored.status = "paused")
               => stored'.status # "active"]_vars

\* C36: in every stored session reachable through createSession and any
\* interleaving of respond, pause and resume requests, completedAt is set
\* if and only if status is completed.
C36_CompletedAtIffCompleted ==
    (stored.completedAt # NoDate) <=> (stored.status = "completed")

\* C39: under any interleaving of requests the stored responses hold no more
\* entries than currentStep, and every entry keyed q carries a step k below
\* currentStep with questions[k].id = q.
C39_ResponsesConsistentWithCursor ==
    /\ Cardinality(DOMAIN stored.responses) <= stored.currentStep
    /\ \A q \in DOMAIN stored.responses :
          LET k == stored.responses[q].metadata.step
          IN  /\ k < stored.currentStep
              /\ QuestionAt(getInterviewType(stored.interviewType), k) # NoQuestion
              /\ QuestionAt(getInterviewType(stored.interviewType), k).id = q

\* a stale write has gone over an acknowledged respond: the stored cursor is
\* below the one that respond saved, and the stored responses still fit it
C39_Witness ==
    /\ overlap
    /\ AllDone
    /\ stored.currentStep > 0
    /\ DOMAIN stored.responses # {}
    /\ \E r \in Requests : /\ Acked(r)
                           /\ req[r].updates.currentStep > stored.currentStep

\* two overlapping responds answered the same question from the same snapshot
C39_WitnessSameQuestion ==
    /\ overlap
    /\ AllDone
    /\ \A r \in Requests : Acked(r) /\ req[r].updates.currentStep = stored.currentStep
    /\ req[1].response # req[2].response

\* a step of the synthesizeContext attempt in flight whose completion call
\* failed, or came back unparsable or structurally invalid
SynthesisCompletionFailed ==
    /\ pc = "synthesizeContext"
    /\ pc' # pc \/ attempts' # attempts
    /\ call'.reply \in {"rejects", "unparsable", "invalid", "timeout"}

\* the document says that it was made without the synthesis collaborator
SelfDescribing(doc) ==
    /\ \E i \in 1..Len(doc.assumptions) : doc.assumptions[i] = SynthesisNoteAssumption
    /\ \E i \in 1..Len(doc.uncertainties) : doc.uncertainties[i] = SynthesisNoteUncertainty

\* every answer of the transcript is an entry of the document, which has no
\* other entries than the stand-in fact of a transcript without facts
BuiltFromTranscript(doc, es) ==
    /\ Len(doc.facts) + Len(doc.constraints) + Len(doc.priorities)
          = Len(es) + (IF doc.facts = << <<"Interview responses collected">> >> THEN 1 ELSE 0)
    /\ \A i \in 1..Len(es) :
          \E list \in {doc.facts, doc.constraints, doc.priorities} :
             \E j \in 1..Len(list) : list[j][Len(list[j])] = es[i].answer

\* C31 (as stated): a failure of the text completion during synthesis never
\* propagates: whenever the completion call fails or its output is unparsable
\* or structurally invalid, the workflow stores a document built from the
\* transcript whose assumptions and uncertainties say that AI synthesis was
\* unavailable, and reaches the review wait.
C31_SynthesisFailureNeverPropagates ==
    [][SynthesisCompletionFailed
         => /\ pc' # "failed"
            /\ pc' # pc => /\ pc' = "reviewWait"
                            /\ awaitingResponse'
                            /\ SelfDescribing(contextDocument')
                            /\ BuiltFromTranscript(contextDocument', exchanges')]_vars

\* C31 (amended): a failure of the text completion that synthesizeContext
\* catches within the attempt (a rejected call, unparsable or structurally
\* invalid output) makes it return the self-describing document built from
\* the transcript, which the workflow stores before it reaches the review
\* wait; the workflow fails in synthesize only when the completion call has
\* run into its timeout in each of the maximumAttempts attempts.
C31_CaughtFailureDegrades ==
    /\ [][(SynthesisCompletionFailed /\ call'.caught)
            => /\ pc' = "reviewWait"
               /\ awaitingResponse'
               /\ SelfDescribing(contextDocument')
               /\ BuiltFromTranscript(contextDocument', exchanges')]_vars
    /\ [][(SynthesisCompletionFailed /\ ~call'.caught)
            => /\ call'.reply = "timeout"
               /\ pc' = (IF attempts' = maximumAttempts THEN "failed" ELSE pc)
               /\ UNCHANGED <<contextDocument, awaitingResponse, phase>>]_vars
    /\ [](pc = "failed" /\ error = "activity" => attempts = maximumAttempts)

C31_Witness ==
    /\ pc = "reviewWait"
    /\ call.activity = "synthesizeContext"
    /\ call.reply = "unparsable"
    /\ call.caught
    /\ awaitingResponse
    /\ Len(exchanges) = MaxExchanges
    /\ Len(contextDocument.constraints) > 0
    /\ SelfDescribing(contextDocument)

C31_WitnessInvalidStructure ==
    /\ pc = "reviewWait"
    /\ call.reply = "invalid"
    /\ awaitingResponse
    /\ SelfDescribing(contextDocument)

C31_WitnessTimedOut ==
    /\ pc = "failed"
    /\ phase = "synthesize"
    /\ call.reply = "timeout"
    /\ call.activity = "synthesizeContext"
    /\ contextDocument = Undefined

\* C32: the recommendation collaborator always produces between 2 and 4
\* recommendations, from whatever array the completion returns and from
\* whatever context document the fallback is given, so the recommendations
\* of the completed workflow state hold 2 to 4 items.
C32_TwoToFourRecommendations ==
    /\ [][\A reply \in RecommendationReplies :
            GenerateRecommendationsReturns(reply)
               => Len(recommendations') \in 2..4]_vars
    /\ [](phase = "complete" => Len(recommendations) \in 2..4)

\* the connection attempts that have not settled
InFlightConnections == {a \in DOMAIN connections : connections[a].state = "pending"}

====
